---- MODULE Spec2Model ----
(***************************************************************************)
(* A model of src/src/App.tsx: the CIA prototype's region classifier, its  *)
(* disambiguation protocol, the narrative builders and the monitoring-plan *)
(* deriver.                                                                *)
(*                                                                         *)
(* Text is a sequence of atoms.  An atom is a one-character string, the    *)
(* name of a code point ("U+0101" is a-macron, "U+0304" the combining      *)
(* macron), or an opaque fragment of fixed text that holds nothing any     *)
(* pattern of the program looks for.                                       *)
(***************************************************************************)
EXTENDS FiniteSets, Integers, Sequences, TLC

\* ------------------------------------------------------------------------
\* Characters

UpperChars == <<"A", "B", "C", "D", "E", "F", "G", "H", "I", "J", "K", "L", "M",
                "N", "O", "P", "Q", "R", "S", "T", "U", "V", "W", "X", "Y", "Z",
                "U+0100", "U+012A", "U+03A3">>

LowerChars == <<"a", "b", "c", "d", "e", "f", "g", "h", "i", "j", "k", "l", "m",
                "n", "o", "p", "q", "r", "s", "t", "u", "v", "w", "x", "y", "z",
                "U+0101", "U+012B", "U+03C3">>

Digits == {"0", "1", "2", "3", "4", "5", "6", "7", "8", "9"}

Range(s) == {s[i] : i \in DOMAIN s}

\* String.prototype.toLowerCase on one character.
LowerChar(c) ==
  IF \E i \in DOMAIN UpperChars : UpperChars[i] = c
  THEN LowerChars[CHOOSE i \in DOMAIN UpperChars : UpperChars[i] = c]
  ELSE c

\* Greek sigma: capital, small, and the small form that ends a word.
CapitalSigma == "U+03A3"
SmallSigma == "U+03C3"
FinalSmallSigma == "U+03C2"

Cased(c) == c \in Range(UpperChars) \cup Range(LowerChars) \cup {FinalSmallSigma}

\* The case-ignorable characters of the alphabet: the combining marks.
CaseIgnorable(c) == c \in {"U+0304", "U+0301"}

\* The Final_Sigma condition of toLowerCase: position i of s follows a cased
\* letter and is followed by none, case-ignorable characters skipped.
FinalSigma(s, i) ==
  /\ \E j \in 1..(i - 1) :
       Cased(s[j]) /\ \A k \in (j + 1)..(i - 1) : CaseIgnorable(s[k])
  /\ ~\E j \in (i + 1)..Len(s) :
        Cased(s[j]) /\ \A k \in (i + 1)..(j - 1) : CaseIgnorable(s[k])

\* String.prototype.toLowerCase: character by character, except that a
\* capital sigma in final position becomes the final small sigma.
toLowerCase(s) ==
  [i \in DOMAIN s |->
     IF s[i] = CapitalSigma /\ FinalSigma(s, i) THEN FinalSmallSigma
     ELSE LowerChar(s[i])]

\* Canonical decomposition (NFD) of one character: a precomposed macron
\* letter becomes its base letter followed by the combining macron.
Decompose(c) ==
  CASE c = "U+0101" -> <<"a", "U+0304">>
    [] c = "U+0100" -> <<"A", "U+0304">>
    [] c = "U+012B" -> <<"i", "U+0304">>
    [] c = "U+012A" -> <<"I", "U+0304">>
    [] OTHER -> <<c>>

RECURSIVE normalizeNFD(_)
normalizeNFD(s) ==
  IF s = <<>> THEN <<>> ELSE Decompose(Head(s)) \o normalizeNFD(Tail(s))

\* \p{Diacritic}: the combining marks of the alphabet.
IsDiacritic(c) == c \in {"U+0304", "U+0301"}

stripDiacritics(s) == SelectSeq(s, LAMBDA c : ~IsDiacritic(c))

\* The value of a missing argument.
Undefined == <<"<undefined>">>

\* input || ""
OrEmpty(input) == IF input = Undefined THEN <<>> ELSE input

\* normalizeForMatch without the lower-casing.
normalizeForMatch_cased(input) ==
  stripDiacritics(normalizeNFD(OrEmpty(input)))

normalizeForMatch(input) ==
  stripDiacritics(normalizeNFD(toLowerCase(OrEmpty(input))))

\* ------------------------------------------------------------------------
\* Regular expressions: a pattern is a sequence of alternatives, an
\* alternative a sequence of elements, matched by backtracking as the
\* engine does (leftmost position first, alternatives in order, greedy
\* quantifiers).

\* \w without the u flag: the ASCII letters, the digits and "_".
WordChars ==
  {LowerChars[i] : i \in 1..26} \cup {UpperChars[i] : i \in 1..26}
    \cup Digits \cup {"_"}

\* \s

Whitespace == {" ", "TAB"}

Lit(w) == [i \in DOMAIN w |-> [t |-> "lit", cs |-> {w[i]}]]
WB == <<[t |-> "b", cs |-> {}]>>
Opt(cs) == <<[t |-> "opt", cs |-> cs]>>
Star(cs) == <<[t |-> "star", cs |-> cs]>>
Word(w) == WB \o Lit(w) \o WB

\* \b at offset p of s: exactly one of the characters around p is a word
\* character.
IsBoundary(s, p) ==
  LET before == p > 0 /\ s[p] \in WordChars
      after == p < Len(s) /\ s[p + 1] \in WordChars
  IN before # after

RECURSIVE MatchSeq(_, _, _, _)
\* The offset after the match of elements k.. of alt at offset p of s, or -1.
MatchSeq(alt, k, s, p) ==
  IF k > Len(alt) THEN p
  ELSE LET e == alt[k]
           takes == p < Len(s) /\ s[p + 1] \in e.cs
       IN CASE e.t = "lit" ->
                 IF takes THEN MatchSeq(alt, k + 1, s, p + 1) ELSE -1
            [] e.t = "b" ->
                 IF IsBoundary(s, p) THEN MatchSeq(alt, k + 1, s, p) ELSE -1
            [] e.t = "opt" ->
                 IF takes
                 THEN LET r == MatchSeq(alt, k + 1, s, p + 1)
                      IN IF r # -1 THEN r ELSE MatchSeq(alt, k + 1, s, p)
                 ELSE MatchSeq(alt, k + 1, s, p)
            [] e.t = "star" ->
                 IF takes
                 THEN LET r == MatchSeq(alt, k, s, p + 1)
                      IN IF r # -1 THEN r ELSE MatchSeq(alt, k + 1, s, p)
                 ELSE MatchSeq(alt, k + 1, s, p)

RECURSIVE MatchAlts(_, _, _, _)
MatchAlts(pat, j, s, p) ==
  IF j > Len(pat) THEN -1
  ELSE LET r == MatchSeq(pat[j], 1, s, p)
       IN IF r # -1 THEN r ELSE MatchAlts(pat, j + 1, s, p)

RECURSIVE RegExpExec(_, _, _)
\* The offset after the leftmost match of pat in s at or after offset p,
\* or -1.
RegExpExec(pat, s, p) ==
  IF p > Len(s) THEN -1
  ELSE LET r == MatchAlts(pat, 1, s, p)
       IN IF r # -1 THEN r ELSE RegExpExec(pat, s, p + 1)

\* String.prototype.includes
includes(s, w) == RegExpExec(<<Lit(w)>>, s, 0) # -1

\* ------------------------------------------------------------------------
\* The ICMP dictionaries

HamiltonCityCouncil == "Hamilton City Council"
WaikatoDistrictCouncil == "Waikato District Council"

HamiltonFallback == "Hamilton City ICMP (area to confirm)"
WaikatoFallback == "Waikato District ICMP (area to confirm)"

NotSet == "(not set)"

HCC_ICMPS == <<
  [name |-> "Peacocke ICMP",
   patterns |-> << <<Word(<<"p", "e", "a", "c", "o", "c", "k", "e">>), Word(<<"p", "e", "a", "c", "o", "c", "k", "s">>)>> >>],
  [name |-> "Rotokauri ICMP",
   patterns |-> << <<Word(<<"r", "o", "t", "o", "k", "a", "u", "r", "i">>)>> >>],
  [name |-> "Te Rapa ICMP",
   patterns |-> << <<Lit(<<"t", "e">>) \o Opt(Whitespace) \o Lit(<<"r", "a", "p", "a">>),
                     Word(<<"p", "u", "k", "e", "t", "e">>), Word(<<"n", "o", "r", "t", "h", "g", "a", "t", "e">>)>> >>],
  [name |-> "Rototuna ICMP",
   patterns |-> << <<Word(<<"r", "o", "t", "o", "t", "u", "n", "a">>), Word(<<"f", "l", "a", "g", "s", "t", "a", "f", "f">>),
                     Word(<<"c", "h", "a", "r", "t", "w", "e", "l", "l">>)>> >>],
  [name |-> "Ruakura ICMP",
   patterns |-> << <<Word(<<"r", "u", "a", "k", "u", "r", "a">>), Word(<<"h", "i", "l", "l", "c", "r", "e", "s", "t">>),
                     Word(<<"s", "i", "l", "v", "e", "r", "d", "a", "l", "e">>), Word(<<"u", "n", "i", "v", "e", "r", "s", "i", "t", "y">>)>> >>],
  [name |-> "Waitawhiriwhiri ICMP",
   patterns |-> << <<Lit(<<"w", "a", "i", "t", "a", "w", "h", "i", "r", "i", "w", "h", "i", "r", "i">>), Lit(<<"b", "e", "e", "r", "e", "s", "c", "o", "u", "r", "t">>),
                     Lit(<<"f", "o", "r", "e", "s", "t">>) \o Star(Whitespace) \o Lit(<<"l", "a", "k", "e">>)
                       \o Opt({"s"}),
                     Lit(<<"f", "r", "a", "n", "k", "t", "o", "n">>), Lit(<<"c", "l", "a", "r", "k", "i", "n">>), Lit(<<"b", "r", "y", "a", "n", "t">>)>> >>],
  [name |-> "Mangakotukutuku ICMP",
   patterns |-> << <<Lit(<<"m", "a", "n", "g", "a", "k", "o", "t", "u", "k", "u", "t", "u", "k", "u">>), Lit(<<"g", "l", "e", "n", "v", "i", "e", "w">>),
                     Lit(<<"m", "e", "l", "v", "i", "l", "l", "e">>), Lit(<<"f", "i", "t", "z", "r", "o", "y">>), Lit(<<"b", "a", "d", "e", "r">>),
                     Lit(<<"k", "a", "h", "i", "k", "a", "t", "e", "a">>), Lit(<<"o", "h", "a", "u", "p", "o">>)>> >>] >>

WDC_ICMPS == <<
  [name |-> "Ng[U+0101]ruaw[U+0101]hia ICMP",
   patterns |-> << <<Lit(<<"n", "g", "a", "r", "u", "a", "w", "a", "h", "i", "a">>), Lit(<<"n", "g", "U+0101", "r", "u", "a", "w", "U+0101", "h", "i", "a">>),
                     Lit(<<"h", "o", "p", "u", "h", "o", "p", "u">>)>> >>],
  [name |-> "Huntly ICMP",
   patterns |-> << <<Word(<<"h", "u", "n", "t", "l", "y">>), Word(<<"r", "a", "h", "u", "i", "p", "o", "k", "e", "k", "a">>)>> >>],
  [name |-> "Te Kauwhata ICMP",
   patterns |-> << <<Lit(<<"t", "e">>) \o Star(Whitespace) \o Lit(<<"k", "a", "u", "w", "h", "a", "t", "a">>),
                     Lit(<<"w", "a", "e", "r", "e", "n", "g", "a">>), Lit(<<"m", "e", "r", "e", "m", "e", "r", "e">>)>> >>] >>

Dict(d) == IF d = "HCC" THEN HCC_ICMPS ELSE WDC_ICMPS

\* The dictionary a council name selects, and its fallback label.
DictOf(councilName) == IF councilName = HamiltonCityCouncil THEN "HCC" ELSE "WDC"

\* The Hamilton fallback for every council.
FallbackOf_hamilton(councilName) == HamiltonFallback

FallbackOf(councilName) ==
  IF councilName = HamiltonCityCouncil THEN HamiltonFallback ELSE WaikatoFallback

\* One regular-expression object per pattern of an area: <<dictionary,
\* area, pattern>>.
RegexIds ==
  UNION {UNION {{<<d, i, j>> : j \in DOMAIN Dict(d)[i].patterns} :
                  i \in DOMAIN Dict(d)} : d \in {"HCC", "WDC"}}

PatternOf(rid) == Dict(rid[1])[rid[2]].patterns[rid[3]]

\* The g flag of the pattern literals: none of them carries it.
RegexGlobal_g == TRUE

RegexGlobal == FALSE

\* ------------------------------------------------------------------------
\* Inputs

\* What the user types into the location field.
LocationPool == <<
  <<>>,
  <<"R", "o", "t", "o", "k", "a", "u", "r", "i">>,
  <<"B", "e", "e", "r", "e", "s", "c", "o", "u", "r", "t">>,
  <<"F", "r", "a", "n", "k", "t", "o", "n", " ", "G", "l", "e", "n", "v", "i", "e", "w">>,
  <<"G", "l", "e", "n", "v", "i", "e", "w", ",", " ", "F", "r", "a", "n", "k", "t", "o", "n">>,
  <<"H", "u", "n", "t", "l", "y", " ", "M", "e", "r", "e", "m", "e", "r", "e">>,
  <<"N", "g", "U+0101", "r", "u", "a", "w", "U+0101", "h", "i", "a">>,
  <<"P", "e", "a", "c", "o", "c", "k", "e", "s", " ", "R", "d">>,
  <<"T", "e", " ", "R", "a", "p", "a">>,
  <<"B", "a", "d", "e", "r", " ", "P", "u", "k", "e", "t", "e", " ", "C", "l", "a", "r", "k", "i", "n">> >>

NumLocations == 7

Locations ==
  {LocationPool[i] : i \in {j \in DOMAIN LocationPool : j <= NumLocations}}

\* The canary locations of runSelfChecks.
Canaries == {<<"W", "a", "i", "t", "a", "w", "h", "i", "r", "i", "w", "h", "i", "r", "i">>, <<"M", "a", "n", "g", "a", "k", "o", "t", "u", "k", "u", "t", "u", "k", "u">>}

Councils == {HamiltonCityCouncil, WaikatoDistrictCouncil}

\* ------------------------------------------------------------------------
\* RegExp.prototype.test, with the lastIndex of every pattern object as
\* explicit state: li maps a RegexIds member to its lastIndex.  A test reads
\* and writes the lastIndex of its own pattern object only.

\* The texts the classifier is given, normalized once.
Normalized == [t \in Locations \cup Canaries |-> normalizeForMatch(t)]

\* The search of every pattern in every normalized text, computed once.
ExecTable ==
  [s \in Range(Normalized) |->
     [rid \in RegexIds |->
        [p \in (IF RegexGlobal THEN 0..Len(s) ELSE {0}) |->
           RegExpExec(PatternOf(rid), s, p)]]]

\* The search p.test(s) makes: from lastIndex when the pattern is global, from
\* 0 otherwise.  The offset after the match, or -1.
TestExec(rid, s, li) ==
  LET start == IF RegexGlobal THEN li[rid] ELSE 0
  IN IF start > Len(s) THEN -1 ELSE ExecTable[s][rid][start]

\* The value of p.test(s).
TestFound(rid, s, li) == TestExec(rid, s, li) # -1

\* The lastIndex p.test(s) leaves: a global pattern keeps the end of its
\* match and resets to 0 on failure.
TestLastIndex(rid, s, li) ==
  IF RegexGlobal
  THEN (IF TestFound(rid, s, li) THEN TestExec(rid, s, li) ELSE 0)
  ELSE li[rid]

\* area.patterns.some((p) => p.test(loc)) for area i of dictionary d.
AreaMatches(d, i, loc, li) ==
  \E j \in DOMAIN Dict(d)[i].patterns : TestFound(<<d, i, j>>, loc, li)

\* some() tests pattern j of an area when no earlier pattern of it matched.
SomeTests(d, i, j, loc, li) ==
  \A k \in 1..(j - 1) : ~TestFound(<<d, i, k>>, loc, li)

\* find() visits area i when no earlier area matched.
FindVisits(d, i, loc, li) ==
  \A h \in 1..(i - 1) : ~AreaMatches(d, h, loc, li)

\* inferICMP with findLast() in place of find(): the last matching area.
inferICMP_findLast(location, councilName, li) ==
  LET loc == Normalized[location]
      d == DictOf(councilName)
      hits == {i \in DOMAIN Dict(d) : AreaMatches(d, i, loc, li)}
  IN IF hits # {}
     THEN Dict(d)[CHOOSE i \in hits : \A h \in hits : h <= i].name
     ELSE FallbackOf(councilName)

\* inferICMP: the first matching area's name, or the fallback label.
inferICMP(location, councilName, li) ==
  LET loc == Normalized[location]
      d == DictOf(councilName)
      hits == {i \in DOMAIN Dict(d) : AreaMatches(d, i, loc, li)}
  IN IF hits # {}
     THEN Dict(d)[CHOOSE i \in hits : \A h \in hits : i <= h].name
     ELSE FallbackOf(councilName)

\* The pattern state a call of inferICMP leaves.
LastIndexAfterFind(location, councilName, li) ==
  LET loc == Normalized[location]
      d == DictOf(councilName)
  IN [rid \in RegexIds |->
        IF /\ rid[1] = d
           /\ FindVisits(d, rid[2], loc, li)
           /\ SomeTests(d, rid[2], rid[3], loc, li)
        THEN TestLastIndex(rid, loc, li)
        ELSE li[rid]]

\* inferICMPMatches: the names of the matching areas in dictionary order, or
\* the fallback label alone.
inferICMPMatches(location, councilName, li) ==
  LET loc == Normalized[location]
      d == DictOf(councilName)
      areas == SelectSeq([i \in DOMAIN Dict(d) |-> i],
                         LAMBDA i : AreaMatches(d, i, loc, li))
      matches == [k \in DOMAIN areas |-> Dict(d)[areas[k]].name]
  IN IF Len(matches) = 0 THEN <<FallbackOf(councilName)>> ELSE matches

\* The pattern state a call of inferICMPMatches leaves: filter() visits
\* every area.
LastIndexAfterFilter(location, councilName, li) ==
  LET loc == Normalized[location]
      d == DictOf(councilName)
  IN [rid \in RegexIds |->
        IF rid[1] = d /\ SomeTests(d, rid[2], rid[3], loc, li)
        THEN TestLastIndex(rid, loc, li)
        ELSE li[rid]]

\* Every pattern object as the module's evaluation leaves it.
InitLastIndex == [rid \in RegexIds |-> 0]

\* ------------------------------------------------------------------------
\* The findings.  A text field is a sequence of atoms: its fixed text, cut
\* around the phrases the program searches documents for; a category is
\* spelled character by character, as the renderer upper-cases it.

sampleFindings == <<
  [category |-> <<"w", "a", "i">>,
   issue |-> <<"Potential degradation of mauri and clarity in tributary due to earthworks sediment discharges">>,
   effects |->
      [cultural |-> <<
         <<"Mauri of the awa diminished; disruption to mahinga kai practices">>,
         <<"Reduced ability for wh[U+0101]nau to gather kai safely">> >>,
       social |-> <<
         <<"Community concern over river health; trust impacts">> >>,
       environmental |-> <<
         <<"Elevated NTU and TSS; smothering of habitat; fish passage stress">> >>,
       spiritual |-> <<
         <<"Tapu/noa balance affected where discharges occur near w[U+0101]hi tapu">> >>],
   mitigations |-> <<
      <<"Install staged sediment retention ponds sized to ", "Hamilton District Plan", " GD05 guidance; monitor turbidity (NTU) daily.">>,
      <<"No instream works during tuna migration periods; implement 25 m riparian buffer in sensitive reaches.">> >>,
   recommendations |-> <<
      <<"Co-design mahinga kai monitoring with mana whenua; quarterly w[U+0101]nanga to review data and adaptive actions.">>,
      <<"Embed Te Ture Whaimana vision-objectives as assessment criteria in contractor EMS (Environmental Management System).">> >>,
   triggers |->
      [metrics |-> <<
         <<"NTU (turbidity)">>,
         <<"TSS (mg/L)">>,
         <<"E. coli (cfu/100 mL)">>,
         <<"Visual clarity (m)">>,
         <<"Mahinga kai presence/abundance (tuna/[U+012B]nanga)">> >>,
       baselines |-> <<"Establish 4-week pre-works baseline for NTU/clarity and cultural health index (CHI) with mana whenua.">>,
       thresholds |-> <<
         <<"NTU > baseline + 25% for >24h">>,
         <<"Clarity < 1.6 m during fine weather">>,
         <<"Any exceedance at mahinga kai sites">> >>,
       actions |-> <<
         <<"Stop high-risk works; inspect ESCP; deploy additional treatment within 24h">>,
         <<"Notify mana whenua and Council within 1 working day">>,
         <<"Hold hui within 5 working days to agree corrective actions">> >>,
       reporting |-> <<"Quarterly report + dashboard; immediate incident reports when thresholds tripped.">>],
   policyLinks |-> <<
      <<"Te Ture Whaimana - Vision and Objective 1 (health and wellbeing of the Waikato River)">>,
      <<"Tai Tumu, Tai Pari, Tai Ao EMP - Wai: water quality, mahinga kai protection">>,
      <<"Hamilton District Plan", " - 25.14 Infrastructure; erosion/sediment control standards">> >>,
   consentClauses |-> <<
      <<"Prior to works, the consent holder must submit an Erosion and Sediment Control Plan (ESCP) prepared by a suitably qualified person, demonstrating compliance with GD05 and avoiding instream works during identified migration windows for tuna/[U+012B]nanga.">>,
      <<"Establish a Mauri Monitoring Programme co-developed with mana whenua that sets baseline and trigger levels (including NTU and clarity), provides for mahinga kai assessments, and requires adaptive responses within 10 working days if triggers are exceeded.">> >>],
  [category |-> <<"w", "h", "e", "n", "u", "a">>,
   issue |-> <<"Loss of topsoil and disturbance of known urup[U+0101] risk area within 200 m of works">>,
   effects |->
      [cultural |-> <<
         <<"Risk to w[U+0101]hi tapu/w[U+0101]hi t[U+016B]puna; mamae if disturbance occurs">> >>,
       social |-> <<
         <<"Project delays and conflict if discovery process unclear">> >>,
       environmental |-> <<
         <<"Erosion risk; reduced soil productivity if not salvaged">> >>,
       spiritual |-> <<
         <<"Tapu breach potential requiring tikanga responses">> >>],
   mitigations |-> <<
      <<"Cultural discovery protocol with immediate stop-work and notification process.">>,
      <<"Topsoil salvage and reuse plan to support revegetation with taonga species.">> >>,
   recommendations |-> <<
      <<"Archaeological Authority (HNZPT) pre-works; mana whenua monitors present during initial ground-breaking.">>,
      <<"GIS mapping layer for w[U+0101]hi tapu/w[U+0101]hi t[U+016B]puna integrated into contractor inductions.">> >>,
   triggers |->
      [metrics |-> <<
         <<"Protocol drills completed">>,
         <<"Monitor hours on-site">>,
         <<"Incidents recorded">> >>,
       baselines |-> <<"Zero harm baseline (no unauthorised ground disturbance).">>,
       thresholds |-> <<
         <<"Any suspected k[U+014D]iwi or taonga triggers stop-work">> >>,
       actions |-> <<
         <<"Immediate stop-work; protect area; notify mana whenua, HNZPT, Police (if k[U+014D]iwi)">>,
         <<"Undertake tikanga-led process; update methodology before resuming">> >>,
       reporting |-> <<"Incident log shared within 24h; monthly summary including training and inductions.">>],
   policyLinks |-> <<
      <<"Tai Tumu, Tai Pari, Tai Ao EMP - Whenua: protection of w[U+0101]hi tapu, soils, and landscapes">>,
      <<"Hamilton/", "Waikato District Plan", " - Heritage and Archaeology provisions">> >>,
   consentClauses |-> <<
      <<"Implement a Cultural Discovery Protocol approved by mana whenua prior to commencement; all staff to be inducted and protocol kept onsite at all times.">>,
      <<"Require mana whenua cultural monitors to be present during initial stripping; consent holder to fund participation and reporting.">> >>],
  [category |-> <<"w", "h", "a", "k", "a", "p", "a", "p", "a">>,
   issue |-> <<"Fragmentation of ecological corridors reducing connectivity for taonga species">>,
   effects |->
      [cultural |-> <<
         <<"Disruption to whakapapa relationships among species and habitats">> >>,
       social |-> <<
         <<"Loss of local amenity and learning opportunities for rangatahi">> >>,
       environmental |-> <<
         <<"Barrier to fish passage; edge effects increase predators/weeds">> >>,
       spiritual |-> <<
         <<"Diminished wairua of place if connections severed">> >>],
   mitigations |-> <<
      <<"Design wildlife-friendly culverts and fish passage; stage works to maintain connectivity.">> >>,
   recommendations |-> <<
      <<"Planting palette guided by whakapapa of place (locally-sourced eco-sourced taonga species); 3-year establishment and pest control.">> >>,
   triggers |->
      [metrics |-> <<
         <<"Fish passage scores (NIWA tool)">>,
         <<"Survival of plantings (%)">>,
         <<"Predator trap-catch">> >>,
       baselines |-> <<"Pre-works fish passage survey and habitat mapping.">>,
       thresholds |-> <<
         <<"Fish passage score < baseline">>,
         <<"Plant survival <85%">> >>,
       actions |-> <<
         <<"Remediate culverts; replace failed plantings; intensify pest control">> >>,
       reporting |-> <<"Six-monthly ecological report + w[U+0101]nanga walkthrough.">>],
   policyLinks |-> <<
      <<"Te Ture Whaimana - enhancement of ecological integrity">>,
      <<"Tai Tumu, Tai Pari, Tai Ao EMP - Whakapapa: intergenerational stewardship">> >>,
   consentClauses |-> <<
      <<"Fish passage to meet NIWA fish passage assessment tool thresholds; as-built certification prior to operation.">> >>],
  [category |-> <<"w", "h", "U+0101", "n", "a", "u">>,
   issue |-> <<"Construction traffic and noise affecting marae access, tangihanga, and daily wh[U+0101]nau life">>,
   effects |->
      [cultural |-> <<
         <<"Disruption to marae protocols and ability to host kaupapa including tangihanga">> >>,
       social |-> <<
         <<"Increased stress; reduced community cohesion if engagement is weak">> >>,
       environmental |-> <<
         <<"Dust and vibration affecting nearby sensitive receivers">> >>,
       spiritual |-> <<
         <<"Disturbance to wairua during significant wh[U+0101]nau events">> >>],
   mitigations |-> <<
      <<"Traffic Management Plan (TMP) with marae input; avoid peak event times">>,
      <<"Construction Noise and Vibration Management Plan; onsite dust suppression">> >>,
   recommendations |-> <<
      <<"Co-design communications plan with mana whenua; 2-week lookahead notices">>,
      <<"Identify protected access windows around known marae events/tangihanga">> >>,
   triggers |->
      [metrics |-> <<
         <<"LAeq dB">>,
         <<"Number of complaints">>,
         <<"Access block incidents">> >>,
       baselines |-> <<"Pre-works ambient noise survey and access mapping with wh[U+0101]nau.">>,
       thresholds |-> <<
         <<">2 substantiated access incidents/month">>,
         <<"Noise exceeds plan limits">> >>,
       actions |-> <<
         <<"Adjust work hours/routing; deploy additional acoustic barriers">>,
         <<"H[U+016B]tu w[U+0101]nanga within 5 working days to agree changes">> >>,
       reporting |-> <<"Monthly community report; real-time hotline with log shared to mana whenua.">>],
   policyLinks |-> <<
      <<"Tai Tumu, Tai Pari, Tai Ao EMP - Wh[U+0101]nau and participation">>,
      <<"Applicable District Plan - Noise/traffic rules and engagement requirements">> >>,
   consentClauses |-> <<
      <<"Prepare and implement a TMP and Communications Plan co-designed with mana whenua, including protected access windows for marae and mechanisms for event-time pauses.">>,
      <<"Maintain a dedicated contact line and incident log accessible to mana whenua; implement corrective actions within 5 working days.">> >>],
  [category |-> <<"m", "a", "u", "r", "i">>,
   issue |-> <<"Residual effects risk during storm events despite controls">>,
   effects |->
      [cultural |-> <<
         <<"Perceived degradation of mauri during heavy rain events">> >>,
       social |-> <<
         <<"Community anxiety following spill/overflow rumours">> >>,
       environmental |-> <<
         <<"Pulse loads of sediments and contaminants">> >>,
       spiritual |-> <<
         <<"Loss of balance (tapu/noa) when incidents occur">> >>],
   mitigations |-> <<
      <<"Adaptive management triggers linked to rainfall intensity thresholds">>,
      <<"Contingency spill kits and overflow prevention measures">> >>,
   recommendations |-> <<
      <<"Integrate mauri indicators in dashboard with traffic-light triggers">>,
      <<"Run post-event w[U+0101]nanga to agree remediation and learning">> >>,
   triggers |->
      [metrics |-> <<
         <<"Rainfall (mm/hr)">>,
         <<"NTU spikes">>,
         <<"Incident count">> >>,
       baselines |-> <<"Event-based baseline using first-flush data">>,
       thresholds |-> <<
         <<">20 mm/hr with NTU > baseline + 40%">>,
         <<"Any overflow">> >>,
       actions |-> <<
         <<"Suspend exposed works; stand-up response team; notify within 24h">> >>,
       reporting |-> <<"Event summary within 5 days; quarterly trend analysis with mana whenua.">>],
   policyLinks |-> <<
      <<"Te Ture Whaimana - maintaining and enhancing the mauri of the Waikato River">>,
      <<"Tai Tumu, Tai Pari, Tai Ao EMP - Mauri">> >>,
   consentClauses |-> <<
      <<"Adopt an Adaptive Management Plan with rainfall-linked triggers and defined corrective actions; co-develop with mana whenua and submit prior to works.">> >>],
  [category |-> <<"w", "a", "i", "r", "u", "a">>,
   issue |-> <<"Loss of sense of place at w[U+0101]hi t[U+016B]puna vista and culturally sensitive viewshafts">>,
   effects |->
      [cultural |-> <<
         <<"Erosion of identity where viewshafts are compromised">> >>,
       social |-> <<
         <<"Reduced pride and connection to place">> >>,
       environmental |-> <<
         <<"Visual amenity effects; vegetation structure changes">> >>,
       spiritual |-> <<
         <<"Disruption to wairua associated with the site">> >>],
   mitigations |-> <<
      <<"Cultural design review panel with mana whenua; protect key sightlines">> >>,
   recommendations |-> <<
      <<"Develop a viewshaft protection plan and culturally anchored design palette">> >>,
   triggers |->
      [metrics |-> <<
         <<"Design gate approvals">>,
         <<"Non-conformance count">> >>,
       baselines |-> <<"Pre-works photo-simulations agreed with mana whenua">>,
       thresholds |-> <<
         <<"Any deviation from agreed sightline envelope">> >>,
       actions |-> <<
         <<"Iterate design to restore sightlines; additional planting/screening">> >>,
       reporting |-> <<"Design review minutes; pre/post photo-comparisons filed with CIA updates.">>],
   policyLinks |-> <<
      <<"Tai Tumu, Tai Pari, Tai Ao EMP - Wairua and landscapes">>,
      <<"District Plan - Landscape/amenity objectives and policies">> >>,
   consentClauses |-> <<
      <<"Establish a Cultural Design Review Panel with decision checkpoints at concept, developed, and pre-construction stages; implement agreed viewshaft protection measures.">> >>] >>

\* ------------------------------------------------------------------------
\* Narrative builders.  A document is a sequence of atoms, NL the line break;
\* the component state a builder reads (projectName, council, inferredICMP)
\* is passed as pn, cn and icmp.

NL == "\n"

RECURSIVE Join(_, _)
\* Array.prototype.join for an array of texts.
Join(texts, sep) ==
  IF texts = <<>> THEN <<>>
  ELSE IF Len(texts) = 1 THEN texts[1]
  ELSE texts[1] \o sep \o Join(Tail(texts), sep)

RECURSIVE FlatMap(_, _)
\* findings.flatMap((f) => f.consentClauses), from finding i on.
FlatMap(findings, i) ==
  IF i > Len(findings) THEN <<>>
  ELSE findings[i].consentClauses \o FlatMap(findings, i + 1)

\* String.prototype.toUpperCase on one character.
UpperChar(c) ==
  IF c = FinalSmallSigma THEN CapitalSigma
  ELSE IF \E i \in DOMAIN LowerChars : LowerChars[i] = c
  THEN UpperChars[CHOOSE i \in DOMAIN LowerChars : LowerChars[i] = c]
  ELSE c

toUpperCase(s) == [i \in DOMAIN s |-> UpperChar(s[i])]

HamiltonPolicyPhrase == <<"He Pou Manawa Ora", "; ", "Hamilton District Plan">>
WaikatoPolicyPhrase == <<"Waikato District Plan">>

Sections == <<
  <<"Executive Summary">>,
  <<"Background and Whakapapa">>,
  <<"Methodology (Kaupapa M[U+0101]ori, W[U+0101]nanga)">>,
  <<"Categories Assessment">>,
  <<"ICMP and Policy Alignment">>,
  <<"Cultural Monitoring Programme">>,
  <<"Consent Conditions and Next Steps">> >>

buildStandardManaWhenua(findings, pn, icmp) ==
  LET intro ==
        <<"# CIA - Mana Whenua Narrative (Standard)", NL, NL,
          "## Project", NL>>
        \o pn \o
        <<NL, NL, "## ", "Whakatau[U+0101]k[U+012B]", " / Context", NL,
          "Ko te mana o te awa me te whenua te t[U+016B][U+0101]papa. This kaupapa recognises our relationship to wai, whenua, and all living systems. We have assessed the technical reports and translated key matters into plain language for wh[U+0101]nau.">>
      cat(i) ==
        LET f == findings[i]
        IN <<NL, "### ", ToString(i), ". ">> \o toUpperCase(f.category) \o
           <<NL, "**Ng[U+0101] take / Issue:** ">>
           \o f.issue \o
           <<NL, NL, "**Ng[U+0101] whakatika / Mitigations:**", NL, "- ">>
           \o Join(f.mitigations, <<NL, "- ">>) \o
           <<NL, NL, "**Ng[U+0101] t[U+016B]tohunga / Recommendations:**",
          NL, "- ">>
           \o Join(f.recommendations, <<NL, "- ">>) \o
           <<NL, NL, "**Monitoring triggers (plain):** ">>
           \o Join(f.triggers.metrics, <<", ">>) \o <<NL>>
      cats == Join([i \in DOMAIN findings |-> cat(i)], <<NL>>)
      align ==
        <<NL,
          "## Te Ture Whaimana and Tai Tumu, Tai Pari, Tai Ao alignment",
          NL,
          "We checked the mahi against the Vision and Objectives of Te Ture Whaimana, the Waikato-Tainui EMP (Tai Tumu, Tai Pari, Tai Ao), and the relevant District Plan. The project is connected to: **">>
        \o <<icmp, "**.">>
      outro ==
        <<NL, "## Tikanga and Participation", NL,
          "- Mana whenua monitors present at ground-break.", NL,
          "- W[U+0101]nanga-a-rohe, quarterly, to review monitoring and adapt.",
          NL,
          "- Cultural discovery protocol: stop-work, karakia, k[U+014D]rero, record.",
          NL, NL, "## Ask to Council / Developer", NL,
          "Adopt the consent conditions listed and fund the co-governed monitoring programme. Partner early on planting design and mahinga kai.">>
  IN Join(<<intro,
            <<NL, "## Sections", NL, "- ">>
            \o Join(Sections, <<NL, "- ">>),
            <<NL, "## Categories - Issues, Mitigations, Recommendations", NL>>
            \o cats,
            align,
            outro>>, <<NL, NL>>)

\* The Hamilton instruments for every council.
PolicyPhrase_hamilton(cn) == HamiltonPolicyPhrase

\* The policy instruments the scope paragraph names for a council.
PolicyPhrase(cn) ==
  IF cn = HamiltonCityCouncil THEN HamiltonPolicyPhrase ELSE WaikatoPolicyPhrase

buildStandardCouncil(findings, pn, cn, icmp) ==
  LET scope ==
        <<"## Assessment Scope", NL,
          "- Technical reports reviewed: EMPs, CMPs, ESCPs, ecology/archaeology/hydrology.",
          NL,
          "- Policy instruments: Te Ture Whaimana; Tai Tumu, Tai Pari, Tai Ao EMP; ">>
        \o PolicyPhrase(cn) \o
        <<".", NL, "- ICMP area: **", icmp, "**.">>
      row(i) ==
        LET f == findings[i]
        IN <<ToString(i), ". ">> \o f.category \o <<" | ">> \o f.issue \o
           <<NL, "   - Mitigation: ">> \o Join(f.mitigations, <<"; ">>) \o
           <<NL, "   - Recommendation: ">> \o Join(f.recommendations, <<"; ">>) \o
           <<NL, "   - Policy: ">> \o Join(f.policyLinks, <<"; ">>)
      matrix == Join([i \in DOMAIN findings |-> row(i)], <<NL, NL>>)
      clauses == FlatMap(findings, 1)
      conditions ==
        Join([i \in DOMAIN clauses |-> <<ToString(i), ". ">> \o clauses[i]], <<NL>>)
  IN <<"# CIA - Council/Developer Narrative (Standard)", NL, NL,
          "## Project", NL>>
     \o pn \o <<NL, NL>> \o scope \o
     <<NL, NL,
          "## Category Matrix (Issues -> Mitigation -> Recommendation -> Policy Link)",
          NL>>
     \o matrix \o
     <<NL, NL, "## Proposed Consent Conditions (extract)", NL>>
     \o conditions \o
     <<NL, NL, "## Monitoring and Adaptive Management", NL,
          "- Baseline: clarity/NTU, macroinvertebrates, mahinga kai presence.",
          NL,
          "- Triggers: set per-site with mana whenua; actions within 10 working days.",
          NL,
          "- Reporting: quarterly hui plus written report for Council and mana whenua.">>

\* ------------------------------------------------------------------------
\* The monitoring-plan deriver.  The focus of a row is spelled character by
\* character where it names the species; toLowerCase leaves the other
\* fragments of a text as they are.

baseMonitoringPlanRows == <<
  [phase |-> <<"Pre-construction">>,
   focus |-> <<"Baseline mauri / ">> \o <<"m", "u", "d", "f", "i", "s", "h">> \o <<" / habitat surveys">>,
   role |-> <<"Attend site walkover; confirm w[U+0101]hi tapu avoidance; record baseline (photos/notes)">>,
   frequency |-> <<"One-off">>],
  [phase |-> <<"During earthworks">>,
   focus |-> <<"Sediment discharge (NTU/TSS), discovery protocol readiness">>,
   role |-> <<"Onsite checks; hold stop-work if tikanga/cultural risk; verify ESCP field controls">>,
   frequency |-> <<"Daily / storm-event">>],
  [phase |-> <<"Ecology">>,
   focus |-> <<"M", "u", "d", "f", "i", "s", "h">> \o <<" / fish passage; planting survival">>,
   role |-> <<"Guide methods using tikanga; co-observe with ecologist; confirm safe handling/release">>,
   frequency |-> <<"Monthly / seasonal">>],
  [phase |-> <<"Close-out">>,
   focus |-> <<"Verify consent conditions delivered; cultural outcomes">>,
   role |-> <<"Final site check; sign-off report to Council and mana whenua">>,
   frequency |-> <<"One-off">>] >>

SpeciesRow ==
  [phase |-> <<"Pre-construction">>,
   focus |-> <<"Targeted ">> \o <<"m", "u", "d", "f", "i", "s", "h">> \o <<" presence/absence at drains/wetlands">>,
   role |-> <<"Assist ecologist; apply tikanga for handling; confirm relocation plan if needed">>,
   frequency |-> <<"One-off">>]

\* The Hamilton row with the stage-gate frequency whatever the toggle.
HamiltonRow_enabled(includeHPMOFlag) ==
  [phase |-> <<"During earthworks">>,
   focus |-> <<"He Pou Manawa Ora", " engagement checkpoint">>,
   role |-> <<"Attend engagement checkpoint; confirm cultural measures are active">>,
   frequency |-> <<"At each stage-gate">>]

HamiltonRow(includeHPMOFlag) ==
  [phase |-> <<"During earthworks">>,
   focus |-> <<"He Pou Manawa Ora", " engagement checkpoint">>,
   role |-> <<"Attend engagement checkpoint; confirm cultural measures are active">>,
   frequency |-> IF includeHPMOFlag THEN <<"At each stage-gate">>
                 ELSE <<"(disabled)">>]

WaikatoRow ==
  [phase |-> <<"During earthworks">>,
   focus |-> <<"Waikato District Plan", " noise/access checks near marae">>,
   role |-> <<"Check access windows and noise limits with wh[U+0101]nau">>,
   frequency |-> <<"Weekly">>]

\* /mudfish|\u012Bnanga/
MudfishPattern == <<Lit(<<"m", "u", "d", "f", "i", "s", "h">>), Lit((<<"U+012B">> \o <<"n", "a", "n", "g", "a">>))>>

\* The text deriveMonitoringRows searches: issue and recommendations of every
\* finding, lower-cased and joined by spaces.
FindingsText(findings) ==
  Join([i \in DOMAIN findings |->
          toLowerCase(findings[i].issue \o <<" ">>
                        \o Join(findings[i].recommendations, <<" ">>))],
       <<" ">>)

\* rows.find((r) => r.focus.toLowerCase().includes("mudfish")) finds a row.
CoversMudfish(rows) ==
  \E k \in DOMAIN rows : includes(toLowerCase(rows[k].focus), <<"m", "u", "d", "f", "i", "s", "h">>)

\* rows.splice(1, 0, row)
SpliceAt1(rows, row) ==
  IF Len(rows) <= 1 THEN Append(rows, row)
  ELSE <<rows[1], row>> \o Tail(rows)

\* The rows deriveMonitoringRows builds from the array it starts with.
DerivedRows(start, findings, councilName, includeHPMOFlag) ==
  LET hasMudfish == RegExpExec(MudfishPattern, FindingsText(findings), 0) # -1
      spliced == IF hasMudfish /\ ~CoversMudfish(start)
                 THEN SpliceAt1(start, SpeciesRow)
                 ELSE start
  IN Append(spliced,
            IF councilName = HamiltonCityCouncil
            THEN HamiltonRow(includeHPMOFlag)
            ELSE WaikatoRow)

\* deriveMonitoringRows working on the base array itself, not on a copy.
deriveMonitoringRows_alias(base, findings, councilName, includeHPMOFlag) ==
  [rows |-> DerivedRows(base, findings, councilName, includeHPMOFlag),
   base |-> DerivedRows(base, findings, councilName, includeHPMOFlag)]

\* deriveMonitoringRows: the rows it returns [rows] and the base array as the
\* call leaves it [base]; the call works on a copy, [...baseMonitoringPlanRows].
deriveMonitoringRows(base, findings, councilName, includeHPMOFlag) ==
  [rows |-> DerivedRows(base, findings, councilName, includeHPMOFlag),
   base |-> base]

\* A finding with the two fields the deriver reads.
Finding(issue, recommendations) ==
  [category |-> <<"w", "a", "i">>, issue |-> issue,
   effects |-> [cultural |-> <<>>, social |-> <<>>, environmental |-> <<>>,
                spiritual |-> <<>>],
   mitigations |-> <<>>, recommendations |-> recommendations,
   triggers |-> [metrics |-> <<>>, baselines |-> <<>>, thresholds |-> <<>>,
                 actions |-> <<>>, reporting |-> <<>>],
   policyLinks |-> <<>>, consentClauses |-> <<>>]

\* The findings deriveMonitoringRows is applied to.
FindingsPool == <<
  sampleFindings,
  <<Finding(<<"m", "u", "d", "f", "i", "s", "h", " ", "s", "e", "e", "n">>, <<>>)>>,
  <<Finding(<<"d", "r", "a", "i", "n", " ", "w", "o", "r", "k", "s">>, <<<<"s", "u", "r", "v", "e", "y">>, <<"p", "r", "o", "t", "e", "c", "t", " ", "M", "u", "d", "f", "i", "s", "h">>>>)>>,
  <<>>,
  <<Finding(<<"U+012A">> \o <<"n", "a", "n", "g", "a", " ", "r", "u", "n">>, <<>>)>>,
  <<Finding(<<"i", "n", "a", "n", "g", "a", " ", "r", "u", "n">>, <<>>)>>,
  <<Finding(<<"m", "u", "d">>, <<<<"f", "i", "s", "h">>>>), Finding(<<"s", "o", "i", "l">>, <<>>)>>,
  <<Finding(<<"s", "o", "i", "l">>, <<>>), Finding(<<"m", "u", "d", "f", "i", "s", "h", "e", "s">>, <<>>)>> >>

NumFindingSets == 7

FindingSets ==
  {FindingsPool[i] : i \in {j \in DOMAIN FindingsPool : j <= NumFindingSets}}

\* The council names deriveMonitoringRows is applied to.
CouncilNames == Councils \cup {"Another Council"}

DeriveInputs ==
  [findings : FindingSets, councilName : CouncilNames, includeHPMOFlag : BOOLEAN]

\* ------------------------------------------------------------------------
\* The session

\* The gallery holds eight placeholder figures, the first three selected.
NumFigures == 8
InitiallySelected == 3

\* The figures whose checkbox the user clicks: the first MaxToggleFigure.
MaxToggleFigure == 1

TinyPng == "data:image/png;base64,iVBORw0KGgo..."

InitFigureGallery ==
  [i \in 1..NumFigures |->
     [id |-> <<"fig-", i>>,
      caption |-> <<"Figure ", i, ": Placeholder diagram/map">>,
      dataUrl |-> TinyPng,
      selected |-> i <= InitiallySelected]]

\* council .. figureGallery are the component's useState cells,
\* manaWhenuaMemo and councilMemo its useMemo cells; lastIndex is the
\* lastIndex of the dictionaries' pattern objects; lastOp names the handler
\* that ran last; testResult is the useState cell of the self-check message.
\* baseRows is the baseMonitoringPlanRows array, deriveInput
\* the arguments of a deriveMonitoringRows call and deriveRows the rows the
\* last call returned, deriveCalls the number of calls made.  jobs lists the
\* export calls in the order of their clicks, downloads the files delivered,
\* alerts the messages alerted and errorLog the jobs console.error was
\* called for.  renderFindings is the findings array a narrative builder is
\* called on, renderPassed its contents when first passed, renderInput the
\* component state the call reads, renderOuts the calls made, each with the
\* state it read and the text it returned.  checkInput is what a call of
\* runSelfChecks reads and checkOut what the call returned; normInput is the
\* argument of a normalizeForMatch call and normOut what the calls on it
\* returned.
VARIABLES council, includeHPMO, projectName, projectLocation, inferredICMP,
          icmpOptions, showIcmpModal, icmpTemp, figureGallery,
          manaWhenuaMemo, councilMemo, lastIndex, lastOp, testResult,
          baseRows, deriveInput, deriveRows, deriveCalls,
          jobs, downloads, alerts, errorLog,
          renderFindings, renderPassed, renderInput, renderOuts,
          checkInput, checkOut, normInput, normOut

vars == <<council, includeHPMO, projectName, projectLocation, inferredICMP,
          icmpOptions, showIcmpModal, icmpTemp, figureGallery,
          manaWhenuaMemo, councilMemo, lastIndex, lastOp, testResult,
          baseRows, deriveInput, deriveRows, deriveCalls,
          jobs, downloads, alerts, errorLog,
          renderFindings, renderPassed, renderInput, renderOuts,
          checkInput, checkOut, normInput, normOut>>

sessionVars ==
  <<council, includeHPMO, projectName, projectLocation, inferredICMP,
    icmpOptions, showIcmpModal, icmpTemp, figureGallery, manaWhenuaMemo,
    councilMemo, lastIndex, lastOp, testResult>>

deriveVars == <<baseRows, deriveInput, deriveRows, deriveCalls>>

exportVars == <<jobs, downloads, alerts, errorLog>>

renderVars ==
  <<renderFindings, renderPassed, renderInput, renderOuts>>

checkVars == <<checkInput, checkOut>>

normVars == <<normInput, normOut>>

\* What the user types into the project-name field; the first is the
\* initial name.
ProjectNamePool == <<
  <<"T", "e", " ", "A", "w", "a", " ", "I", "n", "d", "u", "s", "t", "r", "i", "a", "l", " ", "U", "p", "g", "r", "a", "d", "e", " ", "-", " ", "S", "t", "a", "g", "e", " ", "2">>,
  <<"S", "t", "a", "g", "e", " ", " ", "3">>,
  <<"T", "e", " ", "R", "a", "p", "a", " ", "S", "t", "a", "g", "e", " ", "1">> >>

NumProjectNames == 2

ProjectNames ==
  {ProjectNamePool[i] : i \in {j \in DOMAIN ProjectNamePool : j <= NumProjectNames}}

\* Every value the resolved label takes.
Labels ==
  {NotSet, HamiltonFallback, WaikatoFallback}
    \cup {HCC_ICMPS[i].name : i \in DOMAIN HCC_ICMPS}
    \cup {WDC_ICMPS[i].name : i \in DOMAIN WDC_ICMPS}

\* The narratives of the findings for every project name, council and label,
\* built once.
ManaWhenuaNarrativeOf ==
  [pn \in ProjectNames |->
     [icmp \in Labels |-> buildStandardManaWhenua(sampleFindings, pn, icmp)]]

CouncilNarrativeOf ==
  [pn \in ProjectNames |->
     [cn \in Councils |->
        [icmp \in Labels |-> buildStandardCouncil(sampleFindings, pn, cn, icmp)]]]

\* A useMemo cell holds the dependency array it was last computed for and
\* the value computed then; the value is kept as the arguments the builder
\* read from the component state, its text being the builder's text for them.
manaWhenuaNarrative ==
  ManaWhenuaNarrativeOf[manaWhenuaMemo.args[1]][manaWhenuaMemo.args[2]]

councilNarrative ==
  CouncilNarrativeOf[councilMemo.args[1]][councilMemo.args[2]][councilMemo.args[3]]

\* The render with council left out of the council narrative's dependency
\* array.
Render_councilNotADependency ==
  /\ manaWhenuaMemo' =
       IF <<projectName', inferredICMP'>> # manaWhenuaMemo.deps
       THEN [deps |-> <<projectName', inferredICMP'>>,
             args |-> <<projectName', inferredICMP'>>]
       ELSE manaWhenuaMemo
  /\ councilMemo' =
       IF <<projectName', councilMemo.deps[2], inferredICMP'>> # councilMemo.deps
       THEN [deps |-> <<projectName', councilMemo.deps[2], inferredICMP'>>,
             args |-> <<projectName', council', inferredICMP'>>]
       ELSE councilMemo

\* The render that follows a handler: useMemo recomputes a narrative when its
\* dependency array changed and keeps the memoized value otherwise.
Render ==
  /\ manaWhenuaMemo' =
       IF <<projectName', inferredICMP'>> # manaWhenuaMemo.deps
       THEN [deps |-> <<projectName', inferredICMP'>>,
             args |-> <<projectName', inferredICMP'>>]
       ELSE manaWhenuaMemo
  /\ councilMemo' =
       IF <<projectName', council', inferredICMP'>> # councilMemo.deps
       THEN [deps |-> <<projectName', council', inferredICMP'>>,
             args |-> <<projectName', council', inferredICMP'>>]
       ELSE councilMemo

NoRows == <<>>

\* useState<string | null>(null)
Null == "<null>"

SessionInit ==
  /\ council = HamiltonCityCouncil
  /\ includeHPMO = TRUE
  /\ projectName = ProjectNamePool[1]
  /\ projectLocation = <<>>
  /\ inferredICMP = NotSet
  /\ icmpOptions = <<>>
  /\ showIcmpModal = FALSE
  /\ icmpTemp = NotSet
  /\ figureGallery = InitFigureGallery
  /\ manaWhenuaMemo = [deps |-> <<ProjectNamePool[1], NotSet>>,
                        args |-> <<ProjectNamePool[1], NotSet>>]
  /\ councilMemo =
       [deps |-> <<ProjectNamePool[1], HamiltonCityCouncil, NotSet>>,
        args |-> <<ProjectNamePool[1], HamiltonCityCouncil, NotSet>>]
  /\ lastIndex = InitLastIndex
  /\ lastOp = "init"
  /\ testResult = Null

\* No call of deriveMonitoringRows made.
DeriveIdle ==
  /\ baseRows = baseMonitoringPlanRows
  /\ deriveInput = [findings |-> <<>>,
                    councilName |-> HamiltonCityCouncil,
                    includeHPMOFlag |-> TRUE]
  /\ deriveRows = NoRows
  /\ deriveCalls = 0

\* No export started.
ExportIdle ==
  /\ jobs = <<>>
  /\ downloads = <<>>
  /\ alerts = <<>>
  /\ errorLog = <<>>

\* No narrative builder called outside the render.
RenderIdle ==
  /\ renderFindings = <<>>
  /\ renderPassed = <<>>
  /\ renderInput = [voice |-> "manaWhenua", projectName |-> ProjectNamePool[1],
                    council |-> HamiltonCityCouncil, icmp |-> NotSet]
  /\ renderOuts = <<>>

\* No call of runSelfChecks made outside the session.
NoCheck == [result |-> Null, at |-> -1, li |-> InitLastIndex]

CheckIdle ==
  /\ checkInput = [findings |-> <<>>, council |-> HamiltonCityCouncil,
                   gallery |-> <<>>,
                   projectName |-> ProjectNamePool[1], icmp |-> NotSet]
  /\ checkOut = NoCheck

\* No call of normalizeForMatch made outside the classifier.
NoNorm == [calls |-> 0, first |-> <<>>, value |-> <<>>]

NormIdle ==
  /\ normInput = <<>>
  /\ normOut = NoNorm

Init ==
  /\ SessionInit
  /\ DeriveIdle
  /\ ExportIdle
  /\ RenderIdle
  /\ CheckIdle
  /\ NormIdle

\* The project-name field's onChange.
SetProjectName ==
  \E name \in ProjectNames :
    /\ name # projectName
    /\ projectName' = name
    /\ lastOp' = "setName"
    /\ UNCHANGED <<council, includeHPMO, projectLocation, inferredICMP,
                   icmpOptions, showIcmpModal, icmpTemp, figureGallery,
                   lastIndex>>
    /\ UNCHANGED testResult
    /\ Render
    /\ UNCHANGED <<deriveVars, exportVars, renderVars, checkVars, normVars>>

\* The location field's onChange.
SetProjectLocation ==
  \E loc \in Locations :
    /\ loc # projectLocation
    /\ projectLocation' = loc
    /\ lastOp' = "setLocation"
    /\ UNCHANGED <<projectName, council, includeHPMO, inferredICMP,
                   icmpOptions, showIcmpModal, icmpTemp, figureGallery,
                   lastIndex>>
    /\ UNCHANGED testResult
    /\ Render
    /\ UNCHANGED <<deriveVars, exportVars, renderVars, checkVars, normVars>>

\* The council select's onChange.
SetCouncil ==
  \E val \in Councils :
    /\ val # council
    /\ council' = val
    /\ includeHPMO' = (val = HamiltonCityCouncil)
    /\ lastOp' = "setCouncil"
    /\ UNCHANGED <<projectName, projectLocation, inferredICMP, icmpOptions,
                   showIcmpModal, icmpTemp, figureGallery, lastIndex>>
    /\ UNCHANGED testResult
    /\ Render
    /\ UNCHANGED <<deriveVars, exportVars, renderVars, checkVars, normVars>>

\* The He Pou Manawa Ora checkbox, enabled for every council.
ToggleHPMO_enabled ==
  /\ includeHPMO' = ~includeHPMO
  /\ lastOp' = "toggleHPMO"
  /\ UNCHANGED <<projectName, council, projectLocation, inferredICMP,
                 icmpOptions, showIcmpModal, icmpTemp, figureGallery,
                 lastIndex>>
  /\ UNCHANGED testResult
  /\ Render
  /\ UNCHANGED <<deriveVars, exportVars, renderVars, checkVars, normVars>>

\* The He Pou Manawa Ora checkbox, disabled unless the council is Hamilton.
ToggleHPMO ==
  /\ council = HamiltonCityCouncil
  /\ includeHPMO' = ~includeHPMO
  /\ lastOp' = "toggleHPMO"
  /\ UNCHANGED <<projectName, council, projectLocation, inferredICMP,
                 icmpOptions, showIcmpModal, icmpTemp, figureGallery,
                 lastIndex>>
  /\ UNCHANGED testResult
  /\ Render
  /\ UNCHANGED <<deriveVars, exportVars, renderVars, checkVars, normVars>>

\* handleAutoDetectICMP resolving to the first candidate without asking.
handleAutoDetectICMP_resolves ==
  LET matches == inferICMPMatches(projectLocation, council, lastIndex)
  IN /\ lastIndex' = LastIndexAfterFilter(projectLocation, council, lastIndex)
     /\ lastOp' = "classify"
     /\ inferredICMP' = matches[1]
     /\ IF Len(matches) <= 1
        THEN /\ icmpOptions' = <<>>
             /\ showIcmpModal' = FALSE
             /\ UNCHANGED icmpTemp
        ELSE /\ icmpOptions' = matches
             /\ icmpTemp' = matches[1]
             /\ showIcmpModal' = TRUE
     /\ UNCHANGED <<projectName, council, includeHPMO, projectLocation,
                    figureGallery>>
     /\ UNCHANGED testResult
     /\ Render
     /\ UNCHANGED <<deriveVars, exportVars, renderVars, checkVars, normVars>>

\* handleAutoDetectICMP with matches.length < 1 for matches.length <= 1.
handleAutoDetectICMP_strict ==
  LET matches == inferICMPMatches(projectLocation, council, lastIndex)
  IN /\ lastIndex' = LastIndexAfterFilter(projectLocation, council, lastIndex)
     /\ lastOp' = "classify"
     /\ IF Len(matches) < 1
        THEN /\ inferredICMP' = FallbackOf(council)
             /\ icmpOptions' = <<>>
             /\ showIcmpModal' = FALSE
             /\ UNCHANGED icmpTemp
        ELSE /\ icmpOptions' = matches
             /\ icmpTemp' = matches[1]
             /\ showIcmpModal' = TRUE
             /\ UNCHANGED inferredICMP
     /\ UNCHANGED <<projectName, council, includeHPMO, projectLocation,
                    figureGallery>>
     /\ UNCHANGED testResult
     /\ Render
     /\ UNCHANGED <<deriveVars, exportVars, renderVars, checkVars, normVars>>

\* The "Auto-detect ICMP from location" button.
handleAutoDetectICMP ==
  LET matches == inferICMPMatches(projectLocation, council, lastIndex)
  IN /\ lastIndex' = LastIndexAfterFilter(projectLocation, council, lastIndex)
     /\ lastOp' = "classify"
     /\ IF Len(matches) <= 1
        THEN /\ inferredICMP' = (IF Len(matches) = 1 THEN matches[1]
                                 ELSE FallbackOf(council))
             /\ icmpOptions' = <<>>
             /\ showIcmpModal' = FALSE
             /\ UNCHANGED icmpTemp
        ELSE /\ icmpOptions' = matches
             /\ icmpTemp' = matches[1]
             /\ showIcmpModal' = TRUE
             /\ UNCHANGED inferredICMP
     /\ UNCHANGED <<projectName, council, includeHPMO, projectLocation,
                    figureGallery>>
     /\ UNCHANGED testResult
     /\ Render
     /\ UNCHANGED <<deriveVars, exportVars, renderVars, checkVars, normVars>>

\* The chooser's select: onChange with one of the listed options.
SelectIcmpTemp ==
  /\ showIcmpModal
  /\ \E opt \in Range(icmpOptions) :
       /\ opt # icmpTemp
       /\ icmpTemp' = opt
  /\ lastOp' = "select"
  /\ UNCHANGED <<projectName, council, includeHPMO, projectLocation,
                 inferredICMP, icmpOptions, showIcmpModal, figureGallery,
                 lastIndex>>
  /\ UNCHANGED testResult
  /\ Render
  /\ UNCHANGED <<deriveVars, exportVars, renderVars, checkVars, normVars>>

\* The Cancel button hiding the chooser and keeping its options.
CancelIcmpModal_keepsOptions ==
  /\ showIcmpModal
  /\ showIcmpModal' = FALSE
  /\ lastOp' = "cancel"
  /\ UNCHANGED <<projectName, council, includeHPMO, projectLocation,
                 inferredICMP, icmpOptions, icmpTemp, figureGallery,
                 lastIndex>>
  /\ UNCHANGED testResult
  /\ Render
  /\ UNCHANGED <<deriveVars, exportVars, renderVars, checkVars, normVars>>

\* The Cancel button applying the tentative choice, as the confirm button
\* does.
CancelIcmpModal_applies ==
  /\ showIcmpModal
  /\ inferredICMP' = icmpTemp
  /\ showIcmpModal' = FALSE
  /\ icmpOptions' = <<>>
  /\ lastOp' = "cancel"
  /\ UNCHANGED <<projectName, council, includeHPMO, projectLocation,
                 icmpTemp, figureGallery, lastIndex>>
  /\ UNCHANGED testResult
  /\ Render
  /\ UNCHANGED <<deriveVars, exportVars, renderVars, checkVars, normVars>>

\* The Cancel button clearing the resolved label as well.
CancelIcmpModal_clears ==
  /\ showIcmpModal
  /\ inferredICMP' = NotSet
  /\ showIcmpModal' = FALSE
  /\ icmpOptions' = <<>>
  /\ lastOp' = "cancel"
  /\ UNCHANGED <<projectName, council, includeHPMO, projectLocation,
                 icmpTemp, figureGallery, lastIndex>>
  /\ UNCHANGED testResult
  /\ Render
  /\ UNCHANGED <<deriveVars, exportVars, renderVars, checkVars, normVars>>

\* The chooser's Cancel button and its backdrop.
CancelIcmpModal ==
  /\ showIcmpModal
  /\ showIcmpModal' = FALSE
  /\ icmpOptions' = <<>>
  /\ lastOp' = "cancel"
  /\ UNCHANGED <<projectName, council, includeHPMO, projectLocation,
                 inferredICMP, icmpTemp, figureGallery, lastIndex>>
  /\ UNCHANGED testResult
  /\ Render
  /\ UNCHANGED <<deriveVars, exportVars, renderVars, checkVars, normVars>>

\* The confirm button taking the default candidate, whatever was chosen.
ConfirmIcmpModal_default ==
  /\ showIcmpModal
  /\ inferredICMP' = icmpOptions[1]
  /\ showIcmpModal' = FALSE
  /\ icmpOptions' = <<>>
  /\ lastOp' = "confirm"
  /\ UNCHANGED <<projectName, council, includeHPMO, projectLocation,
                 icmpTemp, figureGallery, lastIndex>>
  /\ UNCHANGED testResult
  /\ Render
  /\ UNCHANGED <<deriveVars, exportVars, renderVars, checkVars, normVars>>

\* The chooser's "Use selected ICMP" button.
ConfirmIcmpModal ==
  /\ showIcmpModal
  /\ inferredICMP' = icmpTemp
  /\ showIcmpModal' = FALSE
  /\ icmpOptions' = <<>>
  /\ lastOp' = "confirm"
  /\ UNCHANGED <<projectName, council, includeHPMO, projectLocation,
                 icmpTemp, figureGallery, lastIndex>>
  /\ UNCHANGED testResult
  /\ Render
  /\ UNCHANGED <<deriveVars, exportVars, renderVars, checkVars, normVars>>

\* A checkbox that selects or clears every figure.
ToggleFigureAt_all(k) ==
  /\ LET checked == ~figureGallery[k].selected
     IN figureGallery' =
          [i \in DOMAIN figureGallery |->
             [figureGallery[i] EXCEPT !.selected = checked]]
  /\ lastOp' = "toggleFigure"
  /\ UNCHANGED <<projectName, council, includeHPMO, projectLocation,
                 inferredICMP, icmpOptions, showIcmpModal, icmpTemp,
                 lastIndex>>
  /\ UNCHANGED testResult
  /\ Render
  /\ UNCHANGED <<deriveVars, exportVars, renderVars, checkVars, normVars>>

\* The checkbox of figure k: onChange with the box's new state.
ToggleFigureAt(k) ==
  /\ LET fig == figureGallery[k]
         checked == ~fig.selected
     IN figureGallery' =
          [i \in DOMAIN figureGallery |->
             IF figureGallery[i].id = fig.id
             THEN [figureGallery[i] EXCEPT !.selected = checked]
             ELSE figureGallery[i]]
  /\ lastOp' = "toggleFigure"
  /\ UNCHANGED <<projectName, council, includeHPMO, projectLocation,
                 inferredICMP, icmpOptions, showIcmpModal, icmpTemp,
                 lastIndex>>
  /\ UNCHANGED testResult
  /\ Render
  /\ UNCHANGED <<deriveVars, exportVars, renderVars, checkVars, normVars>>

\* A figure's checkbox, for the first MaxToggleFigure figures.
ToggleFigure ==
  \E k \in 1..NumFigures : k <= MaxToggleFigure /\ ToggleFigureAt(k)

\* A figure's checkbox, for any figure of the gallery.
ToggleAnyFigure == \E k \in 1..NumFigures : ToggleFigureAt(k)


\* ------------------------------------------------------------------------
\* The self-checks

\* The text of a builder for the component state it reads; the texts for
\* sampleFindings are those built once.
BuilderText(voice, findings, pn, cn, icmp) ==
  IF findings = sampleFindings
  THEN (IF voice = "manaWhenua" THEN ManaWhenuaNarrativeOf[pn][icmp]
        ELSE CouncilNarrativeOf[pn][cn][icmp])
  ELSE (IF voice = "manaWhenua" THEN buildStandardManaWhenua(findings, pn, icmp)
        ELSE buildStandardCouncil(findings, pn, cn, icmp))

\* text contains phrase.
ContainsPhrase(text, phrase) ==
  \E i \in 1..(Len(text) - Len(phrase) + 1) :
    SubSeq(text, i, i + Len(phrase) - 1) = phrase

\* The text /Whakatau\\u0101k\\u012B/ matches: the heading's letters with its
\* two escape sequences spelled out, each behind a backslash.  No fragment
\* of the fixed texts holds a backslash, so the text is matched as one
\* fragment.
EscapedMarker == "Whakatau\\u0101k\\u012B"

\* /Whakatau\\u0101k\\u012B/.test(mw) and cn.includes(expectedBranch) for the
\* narratives of sampleFindings, computed once.
MarkerFoundOf ==
  [pn \in ProjectNames |->
     [icmp \in Labels |->
        ContainsPhrase(ManaWhenuaNarrativeOf[pn][icmp], <<EscapedMarker>>)]]

BranchFoundOf ==
  [pn \in ProjectNames |->
     [cn \in Councils |->
        [icmp \in Labels |->
           [branch \in {"He Pou Manawa Ora", "Waikato District Plan"} |->
              ContainsPhrase(CouncilNarrativeOf[pn][cn][icmp], <<branch>>)]]]]

\* pattern.test(text) for a narrative of findings.
NarrativeContains(voice, findings, pn, cn, icmp, phrase) ==
  IF findings = sampleFindings
  THEN (IF voice = "manaWhenua" THEN MarkerFoundOf[pn][icmp]
        ELSE BranchFoundOf[pn][cn][icmp][phrase])
  ELSE ContainsPhrase(BuilderText(voice, findings, pn, cn, icmp), <<phrase>>)

RequiredKeys ==
  <<"effects", "mitigations", "recommendations", "triggers", "policyLinks",
    "consentClauses">>

\* The canonical categories, with the spelling `Missing category: ${c}` puts
\* into the message.
ExpectedCategories == <<
  [chars |-> <<"w", "a", "i">>, name |-> "wai"],
  [chars |-> <<"w", "h", "e", "n", "u", "a">>, name |-> "whenua"],
  [chars |-> <<"w", "h", "a", "k", "a", "p", "a", "p", "a">>, name |-> "whakapapa"],
  [chars |-> <<"w", "h", "U+0101", "n", "a", "u">>, name |-> "wh[U+0101]nau"],
  [chars |-> <<"m", "a", "u", "r", "i">>, name |-> "mauri"],
  [chars |-> <<"w", "a", "i", "r", "u", "a">>, name |-> "wairua"] >>

WaitawhiriwhiriCanary == <<"W", "a", "i", "t", "a", "w", "h", "i", "r", "i", "w", "h", "i", "r", "i">>
MangakotukutukuCanary == <<"M", "a", "n", "g", "a", "k", "o", "t", "u", "k", "u", "t", "u", "k", "u">>

AllPassed == "All self-checks passed"

\* !f[k]: the property is absent or the empty string.
Falsy(f, k) == k \notin DOMAIN f \/ f[k] = <<>>

FirstOf(S) == CHOOSE i \in S : \A j \in S : i <= j

\* The loop over the findings: the message of its first throw, or Null.
RequiredFieldsThrow(findings) ==
  LET missing(f) == {k \in DOMAIN RequiredKeys : RequiredKeys[k] \notin DOMAIN f}
      bad == {i \in DOMAIN findings :
                \/ Falsy(findings[i], "category")
                \/ Falsy(findings[i], "issue")
                \/ missing(findings[i]) # {}}
  IN IF bad = {} THEN Null
     ELSE LET f == findings[FirstOf(bad)]
          IN IF Falsy(f, "category") \/ Falsy(f, "issue")
             THEN "Missing category or issue"
             ELSE "Missing field: " \o RequiredKeys[FirstOf(missing(f))]

\* runSelfChecks with the figure check ahead of the marker check.
runSelfChecks_figuresFirst(findings, cn, gallery, pn, icmp, li) ==
  LET thrown == RequiredFieldsThrow(findings)
      mwMarked ==
        NarrativeContains("manaWhenua", findings, pn, cn, icmp, EscapedMarker)
      expectedBranch ==
        IF cn = "Hamilton City Council" THEN "He Pou Manawa Ora"
        ELSE "Waikato District Plan"
      cnBranched ==
        NarrativeContains("council", findings, pn, cn, icmp, expectedBranch)
      categories == {findings[i].category : i \in DOMAIN findings}
      absent == {k \in DOMAIN ExpectedCategories :
                   ExpectedCategories[k].chars \notin categories}
      sel == SelectSeq(gallery, LAMBDA g : g.selected)
      t1 == inferICMP(WaitawhiriwhiriCanary, "Hamilton City Council", li)
      li1 == LastIndexAfterFind(WaitawhiriwhiriCanary, "Hamilton City Council", li)
      t2 == inferICMP(MangakotukutukuCanary, "Hamilton City Council", li1)
      li2 == LastIndexAfterFind(MangakotukutukuCanary, "Hamilton City Council", li1)
      Throw(at, message, l) ==
        [result |-> "Test failure: " \o message, at |-> at, li |-> l]
  IN IF thrown # Null THEN Throw(1, thrown, li)
     ELSE IF Len(sel) = 0 THEN Throw(5, "No figures selected", li)
     ELSE IF ~mwMarked
     THEN Throw(2, "Unicode escape missing", li)
     ELSE IF ~cnBranched
     THEN Throw(3, "Council branch failed", li)
     ELSE IF absent # {}
     THEN Throw(4, "Missing category: "
                     \o ExpectedCategories[FirstOf(absent)].name, li)
     ELSE IF t1 # "Waitawhiriwhiri ICMP"
     THEN Throw(6, "ICMP inference failed for Waitawhiriwhiri", li1)
     ELSE IF t2 # "Mangakotukutuku ICMP"
     THEN Throw(7, "ICMP inference failed for Mangakotukutuku", li2)
     ELSE [result |-> AllPassed, at |-> 0, li |-> li2]

\* runSelfChecks for the sampleFindings array, council, figureGallery,
\* projectName and inferredICMP it reads: the message it returns, the
\* assertion that threw (0 when none did) and the pattern state it leaves.
runSelfChecks(findings, cn, gallery, pn, icmp, li) ==
  LET thrown == RequiredFieldsThrow(findings)
      mwMarked ==
        NarrativeContains("manaWhenua", findings, pn, cn, icmp, EscapedMarker)
      expectedBranch ==
        IF cn = "Hamilton City Council" THEN "He Pou Manawa Ora"
        ELSE "Waikato District Plan"
      cnBranched ==
        NarrativeContains("council", findings, pn, cn, icmp, expectedBranch)
      categories == {findings[i].category : i \in DOMAIN findings}
      absent == {k \in DOMAIN ExpectedCategories :
                   ExpectedCategories[k].chars \notin categories}
      sel == SelectSeq(gallery, LAMBDA g : g.selected)
      t1 == inferICMP(WaitawhiriwhiriCanary, "Hamilton City Council", li)
      li1 == LastIndexAfterFind(WaitawhiriwhiriCanary, "Hamilton City Council", li)
      t2 == inferICMP(MangakotukutukuCanary, "Hamilton City Council", li1)
      li2 == LastIndexAfterFind(MangakotukutukuCanary, "Hamilton City Council", li1)
      Throw(at, message, l) ==
        [result |-> "Test failure: " \o message, at |-> at, li |-> l]
  IN IF thrown # Null THEN Throw(1, thrown, li)
     ELSE IF ~mwMarked
     THEN Throw(2, "Unicode escape missing", li)
     ELSE IF ~cnBranched
     THEN Throw(3, "Council branch failed", li)
     ELSE IF absent # {}
     THEN Throw(4, "Missing category: "
                     \o ExpectedCategories[FirstOf(absent)].name, li)
     ELSE IF Len(sel) = 0 THEN Throw(5, "No figures selected", li)
     ELSE IF t1 # "Waitawhiriwhiri ICMP"
     THEN Throw(6, "ICMP inference failed for Waitawhiriwhiri", li1)
     ELSE IF t2 # "Mangakotukutuku ICMP"
     THEN Throw(7, "ICMP inference failed for Mangakotukutuku", li2)
     ELSE [result |-> AllPassed, at |-> 0, li |-> li2]

\* The Run checks button: setTestResult(runSelfChecks()).
RunSelfChecks ==
  LET out == runSelfChecks(sampleFindings, council, figureGallery,
                           projectName, inferredICMP, lastIndex)
  IN /\ testResult' = out.result
     /\ lastIndex' = out.li
     /\ lastOp' = "runSelfChecks"
     /\ UNCHANGED <<projectName, council, includeHPMO, projectLocation,
                    inferredICMP, icmpOptions, showIcmpModal, icmpTemp,
                    figureGallery>>
     /\ Render
     /\ UNCHANGED <<deriveVars, exportVars, renderVars, checkVars, normVars>>
\* ------------------------------------------------------------------------
\* The session's behaviours

Next ==
  \/ SetProjectName
  \/ SetProjectLocation
  \/ SetCouncil
  \/ ToggleHPMO
  \/ handleAutoDetectICMP
  \/ SelectIcmpTemp
  \/ CancelIcmpModal
  \/ ConfirmIcmpModal
  \/ ToggleFigure

Spec == Init /\ [][Next]_vars

\* ------------------------------------------------------------------------
\* deriveMonitoringRows applied to arguments drawn from DeriveInputs, call
\* after call on the same base array

MaxDeriveCalls == 2

DeriveInit ==
  /\ SessionInit
  /\ baseRows = baseMonitoringPlanRows
  /\ deriveInput \in DeriveInputs
  /\ deriveRows = NoRows
  /\ deriveCalls = 0
  /\ ExportIdle
  /\ RenderIdle
  /\ CheckIdle
  /\ NormIdle

\* The next call's arguments.
ChooseDeriveInput ==
  /\ \E in \in DeriveInputs :
       /\ in # deriveInput
       /\ deriveInput' = in
  /\ UNCHANGED <<baseRows, deriveRows, deriveCalls>>
  /\ UNCHANGED <<sessionVars, exportVars, renderVars, checkVars, normVars>>

\* A call of deriveMonitoringRows.
CallDerive ==
  LET out == deriveMonitoringRows(baseRows, deriveInput.findings,
                                  deriveInput.councilName,
                                  deriveInput.includeHPMOFlag)
  IN /\ deriveCalls < MaxDeriveCalls
     /\ deriveCalls' = deriveCalls + 1
     /\ deriveRows' = out.rows
     /\ baseRows' = out.base
     /\ UNCHANGED deriveInput
     /\ UNCHANGED <<sessionVars, exportVars, renderVars, checkVars, normVars>>

DeriveNext == ChooseDeriveInput \/ CallDerive

SpecDerive == DeriveInit /\ [][DeriveNext]_vars


\* ------------------------------------------------------------------------
\* The exports.  An export runs in two steps: the click builds the document
\* from its arguments and starts Packer.toBlob; the continuation after the
\* await delivers the file, or the catch block reports the failure.  The
\* docx library is outside the program: whether a constructor throws and
\* whether the packaging promise rejects is left open.

\* The number of export clicks in a run.
MaxExports == 2

ManaWhenuaTitle == <<"C", "I", "A", "_", "M", "a", "n", "a", "_", "W", "h", "e", "n", "u", "a">>

CouncilTitle == <<"C", "I", "A", "_", "C", "o", "u", "n", "c", "i", "l", "_", "D", "e", "v", "e", "l", "o", "p", "e", "r">>

ExportFailedMessage == "DOCX export failed. Check console for details."

\* A narrative text as a value: the voice and the arguments its builder read,
\* the text being the builder's text for them.
BodyText(body) ==
  IF body.voice = "manaWhenua"
  THEN ManaWhenuaNarrativeOf[body.args[1]][body.args[2]]
  ELSE CouncilNarrativeOf[body.args[1]][body.args[2]][body.args[3]]

\* The whole gallery, selected or not.
selectedFigures_all == figureGallery

\* figureGallery.filter((g) => g.selected)
selectedFigures == SelectSeq(figureGallery, LAMBDA g : g.selected)

\* f.dataUrl.split(",")[1] || "" and atob of it: the bytes of the payload, or
\* an exception for a payload that is not base64.
TinyPngBytes == "<png 76 bytes>"

atob(dataUrl) ==
  IF dataUrl = TinyPng THEN [ok |-> TRUE, bytes |-> TinyPngBytes]
  ELSE [ok |-> FALSE, bytes |-> ""]

\* The figure blocks of a narrative document: caption and decoded image.
FigureBlocks(figures) ==
  [i \in DOMAIN figures |->
     [caption |-> figures[i].caption, data |-> atob(figures[i].dataUrl).bytes]]

DecodeFails(figures) == \E i \in DOMAIN figures : ~atob(figures[i].dataUrl).ok

RECURSIVE ReplaceWhitespaceRuns(_, _)
\* s.replace(/\s+/g, "_"), from offset p on.
ReplaceWhitespaceRuns(s, p) ==
  IF p > Len(s) THEN <<>>
  ELSE IF s[p] \in Whitespace
  THEN (IF p > 1 /\ s[p - 1] \in Whitespace THEN <<>> ELSE <<"_">>)
         \o ReplaceWhitespaceRuns(s, p + 1)
  ELSE <<s[p]>> \o ReplaceWhitespaceRuns(s, p + 1)

\* a.download of a narrative export.
NarrativeFileName(title) == ReplaceWhitespaceRuns(title, 1) \o <<".docx">>

\* a.download of the monitoring export.
MonitoringFileName(project) ==
  <<"Cultural_Monitoring_Programme_">> \o ReplaceWhitespaceRuns(project, 1)
    \o <<".docx">>

\* The document an export builds from its arguments.
NarrativeDoc(title, body, figures) ==
  [title |-> title, body |-> body, figures |-> FigureBlocks(figures),
   project |-> <<>>, rows |-> <<>>]

MonitoringDoc(project, rows) ==
  [title |-> <<"Cultural Monitoring Programme">>, body |-> <<>>,
   figures |-> <<>>, project |-> project, rows |-> rows]

\* body.split("\n"): the stretches of text between its line breaks.
SplitLines(text) ==
  LET breaks == SelectSeq([i \in 1..Len(text) |-> i], LAMBDA i : text[i] = NL)
      b == <<0>> \o breaks \o <<Len(text) + 1>>
  IN [i \in 1..(Len(b) - 1) |-> SubSeq(text, b[i] + 1, b[i + 1] - 1)]

\* The lines of every narrative, computed once.
ManaWhenuaLinesOf ==
  [pn \in ProjectNames |->
     [icmp \in Labels |-> SplitLines(ManaWhenuaNarrativeOf[pn][icmp])]]

CouncilLinesOf ==
  [pn \in ProjectNames |->
     [cn \in Councils |->
        [icmp \in Labels |->
           SplitLines(CouncilNarrativeOf[pn][cn][icmp])]]]

BodyLines(body) ==
  IF body.voice = "manaWhenua"
  THEN ManaWhenuaLinesOf[body.args[1]][body.args[2]]
  ELSE CouncilLinesOf[body.args[1]][body.args[2]][body.args[3]]

Paragraph(style, text) ==
  [style |-> style, text |-> text, image |-> "", width |-> 0, height |-> 0]

ImageRun(data) ==
  [style |-> "IMAGE", text |-> <<>>, image |-> data, width |-> 360,
   height |-> 240]

\* The children of a narrative document's one section: title, a paragraph
\* per line of the body, the figures' heading, and caption and image of
\* each figure block.
DocChildren(doc) ==
  LET lines == BodyLines(doc.body)
      blocks == doc.figures
  IN <<Paragraph("TITLE", doc.title)>>
     \o [i \in DOMAIN lines |-> Paragraph("", lines[i])]
     \o <<Paragraph("HEADING_2", <<"Selected Figures (Inline)">>)>>
     \o [c \in 1..(2 * Len(blocks)) |->
           IF c % 2 = 1 THEN Paragraph("HEADING_3", blocks[(c + 1) \div 2].caption)
           ELSE ImageRun(blocks[c \div 2].data)]

\* A call that has returned holds no document any more.
NoDoc == <<>>

\* The file names of the narrative exports and of the monitoring export for
\* every project name, and the monitoring rows of the findings for every
\* council and toggle value, computed once.
NarrativeFileNameOf ==
  [title \in {ManaWhenuaTitle, CouncilTitle} |-> NarrativeFileName(title)]

MonitoringFileNameOf == [pn \in ProjectNames |-> MonitoringFileName(pn)]

MonitoringRowsOf ==
  [cn \in Councils |->
     [flag \in BOOLEAN |->
        deriveMonitoringRows(baseMonitoringPlanRows, sampleFindings, cn, flag)]]

\* An export from its click to the await: with the document built the call
\* is suspended in Packer.toBlob ("packaging"); with an exception thrown the
\* catch block has run ("failed").
Job(kind, name, doc, built) ==
  [kind |-> kind, download |-> IF built THEN name ELSE <<>>,
   doc |-> IF built THEN doc ELSE NoDoc,
   pc |-> IF built THEN "packaging" ELSE "failed"]

Returned(kind, pc) ==
  [kind |-> kind, download |-> <<>>, doc |-> NoDoc, pc |-> pc]

\* The click's effect on the export state: the job, and the catch block's
\* console.error and alert when the build threw.
StartExport(kind, name, doc, built) ==
  /\ Len(jobs) < MaxExports
  /\ jobs' = Append(jobs, Job(kind, name, doc, built))
  /\ alerts' = IF built THEN alerts ELSE Append(alerts, ExportFailedMessage)
  /\ errorLog' = IF built THEN errorLog ELSE Append(errorLog, Len(jobs) + 1)
  /\ UNCHANGED downloads

\* Export DOCX of the mana whenua narrative.
ExportManaWhenua ==
  /\ \E libraryOk \in BOOLEAN :
       StartExport("manaWhenua", NarrativeFileNameOf[ManaWhenuaTitle],
                   NarrativeDoc(ManaWhenuaTitle,
                                [voice |-> "manaWhenua",
                                 args |-> manaWhenuaMemo.args],
                                selectedFigures),
                   libraryOk /\ ~DecodeFails(selectedFigures))
  /\ UNCHANGED sessionVars
  /\ UNCHANGED <<deriveVars, renderVars, checkVars, normVars>>

\* Export DOCX of the council/developer narrative.
ExportCouncil ==
  /\ \E libraryOk \in BOOLEAN :
       StartExport("council", NarrativeFileNameOf[CouncilTitle],
                   NarrativeDoc(CouncilTitle,
                                [voice |-> "council",
                                 args |-> councilMemo.args],
                                selectedFigures),
                   libraryOk /\ ~DecodeFails(selectedFigures))
  /\ UNCHANGED sessionVars
  /\ UNCHANGED <<deriveVars, renderVars, checkVars, normVars>>

\* Export DOCX of the monitoring programme.
ExportMonitoring ==
  LET out == IF baseRows = baseMonitoringPlanRows
             THEN MonitoringRowsOf[council][includeHPMO]
             ELSE deriveMonitoringRows(baseRows, sampleFindings, council,
                                       includeHPMO)
  IN /\ \E libraryOk \in BOOLEAN :
          StartExport("monitoring", MonitoringFileNameOf[projectName],
                      MonitoringDoc(projectName, out.rows), libraryOk)
     /\ baseRows' = out.base
     /\ UNCHANGED sessionVars
     /\ UNCHANGED <<deriveInput, deriveRows, deriveCalls>>
     /\ UNCHANGED <<renderVars, checkVars, normVars>>

\* The continuation of job j with the blob: the anchor is clicked and the
\* file delivered.
PackagingSucceeds_current(j) ==
  /\ jobs[j].pc = "packaging"
  /\ jobs' = [jobs EXCEPT ![j] = Returned(jobs[j].kind, "delivered")]
  /\ downloads' =
       Append(downloads,
              [job |-> j, download |-> jobs[j].download,
               doc |-> IF jobs[j].kind = "monitoring"
                       THEN [jobs[j].doc EXCEPT !.project = projectName]
                       ELSE [jobs[j].doc EXCEPT
                               !.figures = FigureBlocks(selectedFigures)]])
  /\ UNCHANGED <<alerts, errorLog>>

PackagingSucceeds(j) ==
  /\ jobs[j].pc = "packaging"
  /\ jobs' = [jobs EXCEPT ![j] = Returned(jobs[j].kind, "delivered")]
  /\ downloads' = Append(downloads, [job |-> j, download |-> jobs[j].download,
                                     doc |-> jobs[j].doc])
  /\ UNCHANGED <<alerts, errorLog>>

\* The catch block of job j delivering what was built all the same.
PackagingFails_delivers(j) ==
  /\ jobs[j].pc = "packaging"
  /\ jobs' = [jobs EXCEPT ![j] = Returned(jobs[j].kind, "failed")]
  /\ alerts' = Append(alerts, ExportFailedMessage)
  /\ errorLog' = Append(errorLog, j)
  /\ downloads' = Append(downloads, [job |-> j, download |-> jobs[j].download,
                                     doc |-> jobs[j].doc])

\* The catch block of job j starting the export again.
PackagingFails_retries(j) ==
  /\ jobs[j].pc = "packaging"
  /\ jobs' = jobs
  /\ alerts' = Append(alerts, ExportFailedMessage)
  /\ errorLog' = Append(errorLog, j)
  /\ UNCHANGED downloads

\* The packaging promise of job j rejects: the catch block logs the error
\* and alerts.
PackagingFails(j) ==
  /\ jobs[j].pc = "packaging"
  /\ jobs' = [jobs EXCEPT ![j] = Returned(jobs[j].kind, "failed")]
  /\ alerts' = Append(alerts, ExportFailedMessage)
  /\ errorLog' = Append(errorLog, j)
  /\ UNCHANGED downloads

\* A suspended export resumes, in any order with the others.
PackagingDone ==
  /\ \E j \in DOMAIN jobs : PackagingSucceeds(j)
  /\ UNCHANGED sessionVars
  /\ UNCHANGED <<deriveVars, renderVars, checkVars, normVars>>

PackagingRejected ==
  /\ \E j \in DOMAIN jobs : PackagingFails(j)
  /\ UNCHANGED sessionVars
  /\ UNCHANGED <<deriveVars, renderVars, checkVars, normVars>>

ExportNext ==
  \/ SetProjectName
  \/ SetCouncil
  \/ handleAutoDetectICMP
  \/ ToggleFigure
  \/ ExportManaWhenua
  \/ ExportCouncil
  \/ ExportMonitoring
  \/ PackagingDone
  \/ PackagingRejected

SpecExport == Init /\ [][ExportNext]_vars

\* ------------------------------------------------------------------------
\* The narrative builders applied to arguments drawn from RenderInputs, call
\* after call on the same findings array

\* The number of builder calls in a run.
MaxRenderCalls == 2

\* The findings arrays the builders are applied to.
RenderFindingSets ==
  {sampleFindings,
   <<sampleFindings[2], sampleFindings[1]>>,
   <<Finding(<<"m", "u", "d", "f", "i", "s", "h", " ", "s", "e", "e", "n">>, <<<<"s", "u", "r", "v", "e", "y">>>>)>>}

\* The labels the builders are applied to.
RenderLabels == {NotSet, "Rotokauri ICMP"}

RenderInputs ==
  [voice : {"manaWhenua", "council"}, projectName : ProjectNames,
   council : Councils, icmp : RenderLabels]

\* A builder that reverses the findings array in place after reading it.
CallBuilder_reverses(voice, findings, pn, cn, icmp) ==
  [text |-> BuilderText(voice, findings, pn, cn, icmp),
   findings |-> [i \in DOMAIN findings |-> findings[Len(findings) + 1 - i]]]

\* A call of buildStandardManaWhenua or buildStandardCouncil: the text it
\* returns and the findings array as the call leaves it.  map, join and
\* flatMap build new arrays and strings.
CallBuilder(voice, findings, pn, cn, icmp) ==
  [text |-> BuilderText(voice, findings, pn, cn, icmp),
   findings |-> findings]

RenderInit ==
  /\ SessionInit
  /\ DeriveIdle
  /\ ExportIdle
  /\ CheckIdle
  /\ NormIdle
  /\ renderFindings \in RenderFindingSets
  /\ renderPassed = renderFindings
  /\ renderInput \in RenderInputs
  /\ renderOuts = <<>>

\* The component state of the next call.
ChooseRenderInput ==
  /\ \E in \in RenderInputs :
       /\ in # renderInput
       /\ renderInput' = in
  /\ UNCHANGED <<renderFindings, renderPassed, renderOuts>>
  /\ UNCHANGED <<sessionVars, deriveVars, exportVars, checkVars, normVars>>

\* A call of the builder of renderInput.voice.
CallRender ==
  LET out == CallBuilder(renderInput.voice, renderFindings,
                         renderInput.projectName, renderInput.council,
                         renderInput.icmp)
  IN /\ Len(renderOuts) < MaxRenderCalls
     /\ renderOuts' = Append(renderOuts, [input |-> renderInput, text |-> out.text])
     /\ renderFindings' = out.findings
     /\ UNCHANGED <<renderInput, renderPassed>>
     /\ UNCHANGED <<sessionVars, deriveVars, exportVars, checkVars, normVars>>

RenderNext == ChooseRenderInput \/ CallRender

SpecRender == RenderInit /\ [][RenderNext]_vars

\* ------------------------------------------------------------------------
\* runSelfChecks applied to findings arrays, councils and galleries drawn
\* from CheckInputs

\* sampleFindings with the text the marker check looks for in an issue.
MarkedFindings ==
  [sampleFindings EXCEPT ![1].issue = <<EscapedMarker, " in the source text">>]

\* A finding without some of its properties.
Without(f, keys) == [k \in (DOMAIN f) \ keys |-> f[k]]

\* The findings arrays runSelfChecks is applied to.
CheckFindingsPool == <<
  sampleFindings,
  MarkedFindings,
  [MarkedFindings EXCEPT ![3].category = <<>>],
  [MarkedFindings EXCEPT ![4] = Without(@, {"policyLinks", "consentClauses"})],
  SubSeq(MarkedFindings, 1, 5),
  SubSeq(sampleFindings, 1, 4),
  [MarkedFindings EXCEPT ![2] = Without(@, {"triggers"}), ![5].issue = <<>>],
  <<MarkedFindings[1], MarkedFindings[3]>> >>

NumCheckFindings == 8

CheckFindingSets ==
  {CheckFindingsPool[i] :
     i \in {j \in DOMAIN CheckFindingsPool : j <= NumCheckFindings}}

\* The gallery with the figures of S selected.
GalleryWith(S) ==
  [i \in DOMAIN InitFigureGallery |->
     [InitFigureGallery[i] EXCEPT !.selected = i \in S]]

CheckGalleries == {InitFigureGallery, GalleryWith({}), GalleryWith({NumFigures})}

CheckInputs ==
  [findings : CheckFindingSets, council : Councils, gallery : CheckGalleries,
   projectName : ProjectNames, icmp : {NotSet}]

\* runSelfChecks for every member of CheckInputs, computed once.
SelfChecksOf ==
  [in \in CheckInputs |->
     runSelfChecks(in.findings, in.council, in.gallery, in.projectName,
                   in.icmp, InitLastIndex)]

SelfCheckInit ==
  /\ SessionInit
  /\ DeriveIdle
  /\ ExportIdle
  /\ RenderIdle
  /\ NormIdle
  /\ checkInput \in CheckInputs
  /\ checkOut = NoCheck

\* What the next call reads.
ChooseCheckInput ==
  /\ \E in \in CheckInputs :
       /\ in # checkInput
       /\ checkInput' = in
  /\ checkOut' = NoCheck
  /\ UNCHANGED <<sessionVars, deriveVars, exportVars, renderVars, normVars>>

\* A call of runSelfChecks.
CallSelfChecks ==
  /\ checkOut = NoCheck
  /\ checkOut' = SelfChecksOf[checkInput]
  /\ UNCHANGED checkInput
  /\ UNCHANGED <<sessionVars, deriveVars, exportVars, renderVars, normVars>>

SelfCheckNext == ChooseCheckInput \/ CallSelfChecks

SpecSelfCheck == SelfCheckInit /\ [][SelfCheckNext]_vars

\* ------------------------------------------------------------------------
\* The Run checks button between the edits of what runSelfChecks reads

ChecksNext ==
  \/ SetProjectName
  \/ SetCouncil
  \/ ToggleHPMO
  \/ handleAutoDetectICMP
  \/ ToggleFigure
  \/ RunSelfChecks

SpecChecks == Init /\ [][ChecksNext]_vars

\* ------------------------------------------------------------------------
\* normalizeForMatch applied to arguments drawn from NormInputs, and applied
\* again to its own result

\* The longest argument.
MaxNormLen == 2

NormAlphabet ==
  {"a", "A", "n", "U+0101", "U+0100", "U+0304", "U+0301", CapitalSigma,
   SmallSigma}

\* Every text over NormAlphabet of at most MaxNormLen characters, and the
\* missing argument.
NormInputs ==
  UNION {[1..n -> NormAlphabet] : n \in 0..MaxNormLen} \cup {Undefined}

NormalizeInit ==
  /\ SessionInit
  /\ DeriveIdle
  /\ ExportIdle
  /\ RenderIdle
  /\ CheckIdle
  /\ normInput \in NormInputs
  /\ normOut = NoNorm

\* The argument of the next call.
ChooseNormInput ==
  /\ \E in \in NormInputs :
       /\ in # normInput
       /\ normInput' = in
  /\ normOut' = NoNorm
  /\ UNCHANGED <<sessionVars, deriveVars, exportVars, renderVars, checkVars>>

\* normalizeForMatch(x).
CallNormalize ==
  /\ normOut.calls = 0
  /\ LET r == normalizeForMatch(normInput)
     IN normOut' = [calls |-> 1, first |-> r, value |-> r]
  /\ UNCHANGED normInput
  /\ UNCHANGED <<sessionVars, deriveVars, exportVars, renderVars, checkVars>>

\* normalizeForMatch(normalizeForMatch(x)).
CallNormalizeAgain ==
  /\ normOut.calls = 1
  /\ normOut' = [normOut EXCEPT !.calls = 2,
                                !.value = normalizeForMatch(normOut.value)]
  /\ UNCHANGED normInput
  /\ UNCHANGED <<sessionVars, deriveVars, exportVars, renderVars, checkVars>>

NormalizeNext == ChooseNormInput \/ CallNormalize \/ CallNormalizeAgain

SpecNormalize == NormalizeInit /\ [][NormalizeNext]_vars

\* ------------------------------------------------------------------------
\* The gallery's checkboxes, every one of them, between edits of the project
\* name

GalleryNext ==
  \/ ToggleAnyFigure
  \/ SetProjectName

SpecGallery == Init /\ [][GalleryNext]_vars
\* ------------------------------------------------------------------------
\* Properties of the classifier and of the disambiguation protocol

\* The areas of a council's dictionary with a pattern found in the
\* normalized location.
MatchedAreas(location, councilName) ==
  LET d == DictOf(councilName)
      loc == Normalized[location]
  IN {i \in DOMAIN Dict(d) :
        \E j \in DOMAIN Dict(d)[i].patterns : ExecTable[loc][<<d, i, j>>][0] # -1}

\* names lists exactly the areas of S, in the order the dictionary declares
\* them.
InDeclarationOrder(names, councilName, S) ==
  LET dict == Dict(DictOf(councilName))
      IndexOf(n) == CHOOSE i \in DOMAIN dict : dict[i].name = n
  IN /\ Len(names) = Cardinality(S)
     /\ Range(names) = {dict[i].name : i \in S}
     /\ \A a, b \in DOMAIN names : a < b => IndexOf(names[a]) < IndexOf(names[b])

GlenviewFrankton == <<"G", "l", "e", "n", "v", "i", "e", "w", ",", " ", "F", "r", "a", "n", "k", "t", "o", "n">>

\* C1: a classify request on a location matching two or more regions of the
\* council opens the chooser: the candidates are the matched region names in
\* declaration order, the tentative choice is the first of them, and the
\* resolved label keeps its value.
C1_MultiMatchPending ==
  [][(lastOp' = "classify"
        /\ Cardinality(MatchedAreas(projectLocation, council)) >= 2)
     => /\ showIcmpModal'
        /\ InDeclarationOrder(icmpOptions', council,
                              MatchedAreas(projectLocation, council))
        /\ icmpTemp' = icmpOptions'[1]
        /\ inferredICMP' = inferredICMP]_vars

\* The location names Glenview before Frankton; the dictionary declares
\* Waitawhiriwhiri (Frankton) before Mangakotukutuku (Glenview).
C1_Witness ==
  /\ lastOp = "classify"
  /\ projectLocation = GlenviewFrankton
  /\ showIcmpModal
  /\ icmpOptions = <<"Waitawhiriwhiri ICMP", "Mangakotukutuku ICMP">>
  /\ icmpTemp = "Waitawhiriwhiri ICMP"
  /\ inferredICMP = NotSet

\* C2: confirmation sets the resolved label to the tentative choice, a
\* member of the candidate list, and clears the pending state; only a
\* classify request proposes a candidate list.
C2_ConfirmResolves ==
  [][/\ lastOp' = "confirm"
          => /\ showIcmpModal
             /\ icmpTemp \in Range(icmpOptions)
             /\ inferredICMP' = icmpTemp
             /\ ~showIcmpModal'
             /\ icmpOptions' = <<>>
     /\ (icmpOptions' # icmpOptions /\ icmpOptions' # <<>>)
          => lastOp' = "classify"]_vars

C2_Witness ==
  /\ lastOp = "confirm"
  /\ inferredICMP = "Mangakotukutuku ICMP"
  /\ ~showIcmpModal
  /\ icmpOptions = <<>>

\* C3: cancellation clears the pending state and leaves the resolved label
\* alone, and so does every step that opens the chooser or leaves it open:
\* the label after a cancellation is the label from before the classify
\* request that opened the chooser.
C3_CancelKeepsLabel ==
  [][/\ lastOp' = "cancel"
          => /\ showIcmpModal
             /\ ~showIcmpModal'
             /\ icmpOptions' = <<>>
             /\ inferredICMP' = inferredICMP
     /\ showIcmpModal' => inferredICMP' = inferredICMP]_vars

C3_Witness ==
  /\ lastOp = "cancel"
  /\ inferredICMP = "Rotokauri ICMP"
  /\ ~showIcmpModal
  /\ icmpOptions = <<>>

\* C4: a classify request on a location matching no region of the council
\* resolves at once to the council's fallback label.
C4_NoMatchFallback ==
  [][(lastOp' = "classify" /\ MatchedAreas(projectLocation, council) = {})
     => /\ inferredICMP' = (IF council = "Hamilton City Council"
                            THEN "Hamilton City ICMP (area to confirm)"
                            ELSE "Waikato District ICMP (area to confirm)")
        /\ ~showIcmpModal'
        /\ icmpOptions' = <<>>]_vars

C4_Witness ==
  /\ lastOp = "classify"
  /\ projectLocation = <<>>
  /\ council = "Waikato District Council"
  /\ inferredICMP = "Waikato District ICMP (area to confirm)"
  /\ ~showIcmpModal

\* C5: a classify request on a location matching exactly one region of the
\* council resolves at once to that region's name and clears any pending
\* state; Rotokauri and Beerescourt under Hamilton resolve to Rotokauri ICMP
\* and Waitawhiriwhiri ICMP.
C5_SingleMatchResolves ==
  [][lastOp' = "classify" =>
       /\ \A i \in DOMAIN Dict(DictOf(council)) :
            MatchedAreas(projectLocation, council) = {i}
              => /\ inferredICMP' = Dict(DictOf(council))[i].name
                 /\ ~showIcmpModal'
                 /\ icmpOptions' = <<>>
       /\ (council = "Hamilton City Council" /\ projectLocation = <<"R", "o", "t", "o", "k", "a", "u", "r", "i">>)
            => inferredICMP' = "Rotokauri ICMP" /\ ~showIcmpModal'
       /\ (council = "Hamilton City Council" /\ projectLocation = <<"B", "e", "e", "r", "e", "s", "c", "o", "u", "r", "t">>)
            => inferredICMP' = "Waitawhiriwhiri ICMP" /\ ~showIcmpModal']_vars

C5_Witness ==
  /\ lastOp = "classify"
  /\ council = "Hamilton City Council"
  /\ projectLocation = <<"B", "e", "e", "r", "e", "s", "c", "o", "u", "r", "t">>
  /\ inferredICMP = "Waitawhiriwhiri ICMP"
  /\ ~showIcmpModal
  /\ icmpOptions = <<>>

\* C6: the chooser is shown exactly when the candidate list is non-empty, a
\* non-empty candidate list has at least two entries, and while the chooser
\* is shown the tentative choice is one of the candidates.
C6_ResolvedOrPending ==
  /\ showIcmpModal <=> icmpOptions # <<>>
  /\ icmpOptions # <<>> => Len(icmpOptions) >= 2
  /\ showIcmpModal => icmpTemp \in Range(icmpOptions)

C6_Witness ==
  /\ lastOp = "select"
  /\ showIcmpModal
  /\ Len(icmpOptions) = 2
  /\ icmpTemp = icmpOptions[2]

\* The candidate lists of the pattern objects as the module's evaluation
\* leaves them.
FirstCallMatches ==
  [l \in Locations |->
     [c \in Councils |-> inferICMPMatches(l, c, InitLastIndex)]]

\* C7: in every state of the session, whatever operations came before,
\* inferICMPMatches returns for every location and council the candidate
\* list it returns on its first call.
C7_ClassifierHistoryFree ==
  \A l \in Locations, c \in Councils :
    inferICMPMatches(l, c, lastIndex) = FirstCallMatches[l][c]

\* A second classify request, after a confirmed choice and with a figure
\* toggled in between.
C7_Witness ==
  /\ lastOp = "classify"
  /\ showIcmpModal
  /\ inferredICMP = "Mangakotukutuku ICMP"
  /\ council = "Hamilton City Council"
  /\ ~figureGallery[1].selected

\* ------------------------------------------------------------------------
\* Properties that involve the council switch and the narratives

CouncilFallback(c) ==
  IF c = "Hamilton City Council"
  THEN "Hamilton City ICMP (area to confirm)"
  ELSE "Waikato District ICMP (area to confirm)"

CouncilPolicyPhrase(c) ==
  IF c = "Hamilton City Council"
  THEN <<"He Pou Manawa Ora", "; ", "Hamilton District Plan">>
  ELSE <<"Waikato District Plan">>

PolicyPrefix ==
  "- Policy instruments: Te Ture Whaimana; Tai Tumu, Tai Pari, Tai Ao EMP; "

\* doc has one policy-instruments line, and it names exactly phrase.
ScopePolicyLineIs(doc, phrase) ==
  /\ Cardinality({i \in DOMAIN doc : doc[i] = PolicyPrefix}) = 1
  /\ \E i \in 2..(Len(doc) - Len(phrase) - 2) :
       SubSeq(doc, i - 1, i + Len(phrase) + 2)
         = <<NL, PolicyPrefix>> \o phrase \o <<".", NL>>

\* doc has one ICMP-area line, and it shows exactly label.
ScopeLabelLineIs(doc, label) ==
  /\ Cardinality({i \in DOMAIN doc : doc[i] = "- ICMP area: **"}) = 1
  /\ \E i \in 2..(Len(doc) - 2) :
       SubSeq(doc, i - 1, i + 2) = <<NL, "- ICMP area: **", label, "**.">>

\* C8 as stated: a council switch with the location left as it is changes a
\* fallback label to the new council's fallback label, and the technical-voice
\* document's policy phrase to the new council's.
C8_SwitchRelabels ==
  [][(lastOp' = "setCouncil" /\ inferredICMP = CouncilFallback(council))
     => /\ inferredICMP' = CouncilFallback(council')
        /\ ScopePolicyLineIs(councilNarrative', CouncilPolicyPhrase(council'))]_vars

\* C8 as amended: a council switch changes the technical-voice document's
\* policy phrase to the new council's at once and leaves the location and the
\* resolved label, shown in the document, as they were; a classify request
\* that follows the switch, on a location matching no region of the new
\* council, resolves to the new council's fallback label.
C8_SwitchThenClassify ==
  [][/\ lastOp' = "setCouncil"
          => /\ council' # council
             /\ projectLocation' = projectLocation
             /\ inferredICMP' = inferredICMP
             /\ ScopePolicyLineIs(councilNarrative', CouncilPolicyPhrase(council'))
             /\ ScopeLabelLineIs(councilNarrative', inferredICMP)
     /\ (lastOp = "setCouncil" /\ lastOp' = "classify"
           /\ MatchedAreas(projectLocation, council) = {})
          => /\ inferredICMP' = CouncilFallback(council)
             /\ ScopeLabelLineIs(councilNarrative', CouncilFallback(council))
             /\ ScopePolicyLineIs(councilNarrative', CouncilPolicyPhrase(council))]_vars

\* The Hamilton fallback label still shown after the switch to Waikato.
C8_Witness ==
  /\ lastOp = "setCouncil"
  /\ council = "Waikato District Council"
  /\ projectLocation = <<>>
  /\ inferredICMP = "Hamilton City ICMP (area to confirm)"
  /\ ScopePolicyLineIs(councilNarrative, <<"Waikato District Plan">>)
  /\ ScopeLabelLineIs(councilNarrative, "Hamilton City ICMP (area to confirm)")


\* The assessment-scope paragraph of a technical-voice document: from its
\* heading to the blank line that ends it.
ScopeParagraph(doc) ==
  LET start == CHOOSE i \in DOMAIN doc : doc[i] = "## Assessment Scope"
      stop == CHOOSE k \in start..(Len(doc) - 1) :
                /\ doc[k] = NL /\ doc[k + 1] = NL
                /\ \A m \in start..(k - 1) : ~(doc[m] = NL /\ doc[m + 1] = NL)
  IN SubSeq(doc, start, stop - 1)

HasSpeciesKeyword(findings) ==
  RegExpExec(MudfishPattern, FindingsText(findings), 0) # -1

SpeciesFocus ==
  <<"Targeted ">> \o <<"m", "u", "d", "f", "i", "s", "h">> \o <<" presence/absence at drains/wetlands">>

\* The positions of the species row in a row list (position 2 is index 1).
SpeciesPositions(rows) == {k \in DOMAIN rows : rows[k].focus = SpeciesFocus}

\* The rows a call leaves once the species row and the appended council row
\* are taken out.
CoreRows(rows) ==
  LET kept == {k \in 1..(Len(rows) - 1) : rows[k].focus # SpeciesFocus}
  IN [i \in 1..Cardinality(kept) |->
        rows[CHOOSE k \in kept : Cardinality({j \in kept : j <= k}) = i]]

\* The rows of a call with these arguments on the base array as declared.
FreshRows(in) ==
  deriveMonitoringRows(baseMonitoringPlanRows, in.findings, in.councilName,
                       in.includeHPMOFlag).rows

\* C9: a call of deriveMonitoringRows returns the species row exactly when
\* the species keyword set matches the issue and recommendation text of the
\* findings, and the species row, when present, is at index 1.
C9_SpeciesRowFollowsKeyword ==
  [][CallDerive =>
       /\ HasSpeciesKeyword(deriveInput.findings)
            <=> (SpeciesPositions(deriveRows') # {})
       /\ SpeciesPositions(deriveRows') \subseteq {2}]_vars

\* A call on findings whose issue names the species: no species row comes
\* back, the base rows covering the focus already.
C9_Witness ==
  /\ deriveCalls = 1
  /\ deriveInput.findings = FindingsPool[2]
  /\ deriveRows = FreshRows(deriveInput)
  /\ SpeciesPositions(deriveRows) = {}
  /\ CoversMudfish(baseMonitoringPlanRows)

\* C10: every call of deriveMonitoringRows, whatever calls came before it,
\* returns 5 or 6 rows; without the species row and the appended row they are
\* the four base rows in declared order; the call leaves the base array as
\* declared, and the rows are those a first call with the same arguments
\* returns.
C10_RowsStable ==
  [][CallDerive =>
       /\ Len(deriveRows') \in {5, 6}
       /\ CoreRows(deriveRows') = baseMonitoringPlanRows
       /\ Len(baseMonitoringPlanRows) = 4
       /\ baseRows' = baseMonitoringPlanRows
       /\ deriveRows' = FreshRows(deriveInput)]_vars

C10_Witness ==
  /\ deriveCalls >= 2
  /\ HasSpeciesKeyword(deriveInput.findings)
  /\ deriveInput.councilName = WaikatoDistrictCouncil
  /\ deriveRows = FreshRows(deriveInput)
  /\ Len(deriveRows) = 5
  /\ baseRows = baseMonitoringPlanRows

CheckpointFocus == <<"He Pou Manawa Ora", " engagement checkpoint">>

NoiseAccessFocus == <<"Waikato District Plan", " noise/access checks near marae">>

\* The positions of the two council rows in a row list.
CheckpointPositions(rows) == {k \in DOMAIN rows : rows[k].focus = CheckpointFocus}

NoiseAccessPositions(rows) == {k \in DOMAIN rows : rows[k].focus = NoiseAccessFocus}

\* C11: every call of deriveMonitoringRows returns exactly one council row,
\* as the last row: for Hamilton City Council the checkpoint row, its
\* frequency the stage-gate string with the toggle on and "(disabled)" with
\* it off; for another council the weekly noise/access row, the same for
\* both toggle values.
C11_OneCouncilRowLast ==
  [][CallDerive =>
       LET rows == deriveRows'
           n == Len(rows)
       IN /\ CheckpointPositions(rows) \cup NoiseAccessPositions(rows) = {n}
          /\ deriveInput.councilName = "Hamilton City Council"
               => /\ CheckpointPositions(rows) = {n}
                  /\ rows[n].frequency =
                       (IF deriveInput.includeHPMOFlag
                        THEN <<"At each stage-gate">>
                        ELSE <<"(disabled)">>)
          /\ deriveInput.councilName # "Hamilton City Council"
               => /\ NoiseAccessPositions(rows) = {n}
                  /\ rows[n].frequency = <<"Weekly">>
                  /\ rows[n] = FreshRows([deriveInput EXCEPT
                                  !.includeHPMOFlag = ~@])[n]]_vars

\* A Hamilton call with the toggle off.
C11_Witness ==
  /\ deriveCalls >= 1
  /\ deriveInput.councilName = "Hamilton City Council"
  /\ ~deriveInput.includeHPMOFlag
  /\ deriveRows = FreshRows(deriveInput)
  /\ deriveRows[Len(deriveRows)].focus = CheckpointFocus
  /\ deriveRows[Len(deriveRows)].frequency = <<"(disabled)">>

\* ------------------------------------------------------------------------
\* Properties of the exports (SpecExport)

\* The jobs that are in the given state.
JobsAt(js, pc) == {j \in DOMAIN js : js[j].pc = pc}

\* C12: an export is all-or-nothing.  A step delivers at most one file, and
\* only as the continuation of a job suspended in packaging, whose document
\* was built: the file is that job's document under that job's name.  A step
\* in which a build or a packaging fails delivers nothing, and the files
\* delivered are at all times those of the jobs that succeeded, one each.
C12_AllOrNothing ==
  [][/\ downloads' # downloads
          => \E j \in JobsAt(jobs, "packaging") :
               /\ jobs'[j].pc = "delivered"
               /\ jobs[j].doc # NoDoc
               /\ downloads' = Append(downloads,
                                      [job |-> j, download |-> jobs[j].download,
                                       doc |-> jobs[j].doc])
     /\ JobsAt(jobs', "failed") # JobsAt(jobs, "failed")
          => downloads' = downloads
     /\ {downloads'[i].job : i \in DOMAIN downloads'} = JobsAt(jobs', "delivered")
     /\ Len(downloads') = Cardinality(JobsAt(jobs', "delivered"))]_vars

\* A failed export next to a delivered one: one file, of the second job.
C12_Witness ==
  /\ Len(jobs) = 2
  /\ jobs[1].pc = "failed"
  /\ jobs[2].pc = "delivered"
  /\ Len(downloads) = 1
  /\ downloads[1].job = 2
  /\ Len(alerts) = 1

\* The component's state cells.
sessionState ==
  <<council, includeHPMO, projectName, projectLocation, inferredICMP,
    icmpOptions, showIcmpModal, icmpTemp, figureGallery, testResult>>

\* C13: a step in which an export fails alerts the one generic message once
\* and starts no export again; a failed export stays failed; the alerts are
\* at all times one per failed export; and no step of an export, failing or
\* succeeding, changes a state cell of the component.
C13_FailureSurfacedOnce ==
  [][/\ JobsAt(jobs', "failed") # JobsAt(jobs, "failed")
          => /\ alerts' = Append(alerts, "DOCX export failed. Check console for details.")
             /\ Cardinality(JobsAt(jobs', "failed"))
                  = Cardinality(JobsAt(jobs, "failed")) + 1
             /\ JobsAt(jobs', "packaging") \subseteq JobsAt(jobs, "packaging")
     /\ \A j \in JobsAt(jobs, "failed") : jobs'[j] = jobs[j]
     /\ Len(alerts') = Cardinality(JobsAt(jobs', "failed"))
     /\ jobs' # jobs => sessionState' = sessionState]_vars

\* A packaging failure after the user resolved a label and cleared a figure.
C13_Witness ==
  /\ Len(jobs) = 1
  /\ jobs[1].pc = "failed"
  /\ jobs[1].kind = "council"
  /\ alerts = <<"DOCX export failed. Check console for details.">>
  /\ errorLog = <<1>>
  /\ downloads = <<>>
  /\ inferredICMP = "Waikato District ICMP (area to confirm)"
  /\ ~figureGallery[1].selected

\* The document and the file name an export clicked in the current state is
\* to have.
ExpectedDoc(kind) ==
  CASE kind = "manaWhenua" ->
         [title |-> ManaWhenuaTitle,
          body |-> [voice |-> "manaWhenua", args |-> <<projectName, inferredICMP>>],
          figures |-> [i \in DOMAIN selectedFigures |->
                         [caption |-> selectedFigures[i].caption,
                          data |-> TinyPngBytes]],
          project |-> <<>>, rows |-> <<>>]
    [] kind = "council" ->
         [title |-> CouncilTitle,
          body |-> [voice |-> "council",
                    args |-> <<projectName, council, inferredICMP>>],
          figures |-> [i \in DOMAIN selectedFigures |->
                         [caption |-> selectedFigures[i].caption,
                          data |-> TinyPngBytes]],
          project |-> <<>>, rows |-> <<>>]
    [] kind = "monitoring" ->
         [title |-> <<"Cultural Monitoring Programme">>, body |-> <<>>,
          figures |-> <<>>, project |-> projectName,
          rows |-> MonitoringRowsOf[council][includeHPMO].rows]

ExpectedName(kind) ==
  CASE kind = "manaWhenua" -> ManaWhenuaTitle \o <<".docx">>
    [] kind = "council" -> CouncilTitle \o <<".docx">>
    [] kind = "monitoring" -> MonitoringFileNameOf[projectName]

\* C14: the document and the file name of an export are those of the state
\* it is clicked in; while it is suspended no step changes them, whatever
\* the user edits and whatever becomes of another export; a step changes at
\* most one export; and the file delivered is the suspended job's document
\* under its name.
C14_ContentFixedAtClick ==
  [][/\ Len(jobs') = Len(jobs) + 1 /\ jobs'[Len(jobs')].pc = "packaging"
          => /\ jobs'[Len(jobs')].doc = ExpectedDoc(jobs'[Len(jobs')].kind)
             /\ jobs'[Len(jobs')].download = ExpectedName(jobs'[Len(jobs')].kind)
     /\ \A j \in JobsAt(jobs, "packaging") :
          \/ jobs'[j] = jobs[j]
          \/ /\ jobs'[j].pc = "failed"
             /\ downloads' = downloads
          \/ /\ jobs'[j].pc = "delivered"
             /\ downloads' = Append(downloads,
                                    [job |-> j, download |-> jobs[j].download,
                                     doc |-> jobs[j].doc])
     /\ Cardinality({j \in DOMAIN jobs : jobs'[j] # jobs[j]}) <= 1
     /\ \A i \in DOMAIN downloads : downloads'[i] = downloads[i]]_vars

\* The council narrative clicked first and delivered last: the user changed
\* the project name, the council and the figures while it was suspended, and
\* a second export failed meanwhile.
C14_Witness ==
  /\ Len(jobs) = 2
  /\ jobs[1].kind = "council"
  /\ jobs[1].pc = "delivered"
  /\ jobs[2].pc = "failed"
  /\ Len(downloads) = 1
  /\ downloads[1].doc.body.args
       = <<ProjectNamePool[1], "Hamilton City Council", "(not set)">>
  /\ Len(downloads[1].doc.figures) = 3
  /\ projectName = ProjectNamePool[2]
  /\ council = "Waikato District Council"
  /\ inferredICMP = "Waikato District ICMP (area to confirm)"
  /\ ~figureGallery[1].selected
  /\ lastOp = "toggleFigure"

\* The files delivered by narrative exports.
NarrativeFiles == {i \in DOMAIN downloads : downloads[i].doc.body # <<>>}

\* C15: the file name of a delivered export is its title with every
\* whitespace run replaced by "_"; a narrative's file name is derived from
\* the project name too, so that two narrative files of the same voice whose
\* project names differ have different file names.
C15_FileNameFromTitleAndProject ==
  /\ \A i \in NarrativeFiles :
       downloads[i].download
         = ReplaceWhitespaceRuns(downloads[i].doc.title, 1) \o <<".docx">>
  /\ \A i, k \in NarrativeFiles :
       (/\ downloads[i].doc.body.voice = downloads[k].doc.body.voice
        /\ downloads[i].doc.body.args[1] # downloads[k].doc.body.args[1])
         => downloads[i].download # downloads[k].download

\* Two mana whenua narratives delivered for two project names under the one
\* file name.
C15_Witness ==
  /\ Len(downloads) = 2
  /\ NarrativeFiles = {1, 2}
  /\ downloads[1].doc.body.voice = "manaWhenua"
  /\ downloads[2].doc.body.voice = "manaWhenua"
  /\ downloads[1].doc.body.args[1] = ProjectNamePool[1]
  /\ downloads[2].doc.body.args[1] = ProjectNamePool[2]
  /\ downloads[1].download = ManaWhenuaTitle \o <<".docx">>
  /\ downloads[2].download = ManaWhenuaTitle \o <<".docx">>

\* ------------------------------------------------------------------------
\* C17: a call of buildStandardManaWhenua or buildStandardCouncil leaves the
\* findings array as it was passed, returns the text of the findings, project
\* name, council and label it was called with, the same text as every earlier
\* call with the same arguments, and changes no state of the session.
C17_RenderersPure ==
  [][CallRender =>
       LET out == renderOuts'[Len(renderOuts')]
       IN /\ renderFindings' = renderFindings
          /\ renderFindings' = renderPassed
          /\ out.text = BuilderText(renderInput.voice, renderPassed,
                                    renderInput.projectName, renderInput.council,
                                    renderInput.icmp)
          /\ \A i \in DOMAIN renderOuts :
               renderOuts[i].input = out.input => renderOuts[i].text = out.text
          /\ sessionState' = sessionState
          /\ <<manaWhenuaMemo, councilMemo, testResult>>'
               = <<manaWhenuaMemo, councilMemo, testResult>>]_vars

\* Two calls of the council builder with the same arguments on the two
\* findings in reversed order have returned the same text.
C17_Witness ==
  /\ Len(renderOuts) = 2
  /\ renderOuts[1].input = renderOuts[2].input
  /\ renderOuts[1].text = renderOuts[2].text
  /\ renderOuts[2].input.voice = "council"
  /\ Len(renderOuts[2].text) > 0
  /\ Len(renderPassed) = 2
  /\ renderFindings = renderPassed

\* ------------------------------------------------------------------------
\* The assertions of runSelfChecks, each stated on what the call reads.

RequiredFieldsHold(in) ==
  \A i \in DOMAIN in.findings :
    LET f == in.findings[i]
    IN /\ {"category", "issue"} \cup Range(RequiredKeys) \subseteq DOMAIN f
       /\ Len(f.category) > 0
       /\ Len(f.issue) > 0

MarkerHolds(in) ==
  EscapedMarker
    \in Range(buildStandardManaWhenua(in.findings, in.projectName, in.icmp))

BranchHolds(in) ==
  (IF in.council = HamiltonCityCouncil THEN "He Pou Manawa Ora"
   ELSE "Waikato District Plan")
    \in Range(buildStandardCouncil(in.findings, in.projectName, in.council,
                                   in.icmp))

CategoriesHold(in) ==
  \A k \in DOMAIN ExpectedCategories :
    \E i \in DOMAIN in.findings :
      in.findings[i].category = ExpectedCategories[k].chars

FigureHolds(in) == \E i \in DOMAIN in.gallery : in.gallery[i].selected

CanaryHolds(canary, label) ==
  inferICMP(canary, HamiltonCityCouncil, InitLastIndex) = label

\* The first assertion, in the order of the code, that does not hold; 0 when
\* all hold.
FirstFailing(in) ==
  IF ~RequiredFieldsHold(in) THEN 1
  ELSE IF ~MarkerHolds(in) THEN 2
  ELSE IF ~BranchHolds(in) THEN 3
  ELSE IF ~CategoriesHold(in) THEN 4
  ELSE IF ~FigureHolds(in) THEN 5
  ELSE IF ~CanaryHolds(WaitawhiriwhiriCanary, "Waitawhiriwhiri ICMP") THEN 6
  ELSE IF ~CanaryHolds(MangakotukutukuCanary, "Mangakotukutuku ICMP") THEN 7
  ELSE 0

\* The messages an assertion throws.
MessagesOf(k) ==
  CASE k = 1 -> {"Missing category or issue"}
                  \cup {"Missing field: " \o key : key \in Range(RequiredKeys)}
    [] k = 2 -> {"Unicode escape missing"}
    [] k = 3 -> {"Council branch failed"}
    [] k = 4 -> {"Missing category: " \o ExpectedCategories[c].name :
                   c \in DOMAIN ExpectedCategories}
    [] k = 5 -> {"No figures selected"}
    [] k = 6 -> {"ICMP inference failed for Waitawhiriwhiri"}
    [] k = 7 -> {"ICMP inference failed for Mangakotukutuku"}

\* C18: a call of runSelfChecks returns "All self-checks passed" exactly when
\* required fields, marker, policy phrase, categories, figure selection and
\* the two canaries all hold; otherwise it returns "Test failure: " followed
\* by a message of the first of them, in that order, that fails, and no
\* later assertion has thrown.
C18_FirstFailureReported ==
  checkOut # NoCheck =>
    LET k == FirstFailing(checkInput)
    IN /\ checkOut.result = AllPassed <=> k = 0
       /\ checkOut.at = k
       /\ k # 0 =>
            checkOut.result \in {"Test failure: " \o m : m \in MessagesOf(k)}

\* A call on four findings without the marker text and with no figure
\* selected: marker, categories and figure selection all fail, and the
\* marker's message is returned.
C18_Witness ==
  /\ checkOut # NoCheck
  /\ Len(checkInput.findings) = 4
  /\ ~FigureHolds(checkInput)
  /\ ~CategoriesHold(checkInput)
  /\ ~MarkerHolds(checkInput)
  /\ checkOut.result = "Test failure: Unicode escape missing"

\* C19: the Run checks button pressed while the council is Hamilton City
\* Council and the gallery is as constructed, over the six built-in
\* findings, sets the message to "All self-checks passed".
C19_InitialChecksPass ==
  [][(/\ RunSelfChecks
      /\ council = HamiltonCityCouncil
      /\ figureGallery = InitFigureGallery
      /\ Len(sampleFindings) = 6)
       => testResult' = AllPassed]_vars

\* The button pressed first of all: the message is the marker's failure,
\* although the community-voice document holds the heading with its macrons,
\* the technical-voice document holds the Hamilton phrase, the six
\* categories are present, three figures are selected and both canaries
\* classify to their areas.
C19_Witness ==
  /\ lastOp = "runSelfChecks"
  /\ testResult = "Test failure: Unicode escape missing"
  /\ council = HamiltonCityCouncil
  /\ projectName = ProjectNamePool[1]
  /\ inferredICMP = NotSet
  /\ figureGallery = InitFigureGallery
  /\ "Whakatau[U+0101]k[U+012B]" \in Range(manaWhenuaNarrative)
  /\ EscapedMarker \notin Range(manaWhenuaNarrative)
  /\ "He Pou Manawa Ora" \in Range(councilNarrative)
  /\ \A k \in DOMAIN ExpectedCategories :
       \E i \in DOMAIN sampleFindings :
         sampleFindings[i].category = ExpectedCategories[k].chars
  /\ CanaryHolds(WaitawhiriwhiriCanary, "Waitawhiriwhiri ICMP")
  /\ CanaryHolds(MangakotukutukuCanary, "Mangakotukutuku ICMP")

\* ------------------------------------------------------------------------
\* Texts that differ only in letter case, or only in macrons and accents.

\* The letter a character stands for once its macron is taken away.
Unaccented(c) ==
  CASE c \in {"U+0101"} -> "a"
    [] c \in {"U+0100"} -> "A"
    [] c \in {"U+012B"} -> "i"
    [] c \in {"U+012A"} -> "I"
    [] OTHER -> c

\* A text without its accents: no combining mark, no precomposed letter.
Bare(s) ==
  LET kept == SelectSeq(s, LAMBDA c : c \notin {"U+0304", "U+0301"})
  IN [i \in DOMAIN kept |-> Unaccented(kept[i])]

\* x and y differ only in macrons and accents.
AccentVariants(x, y) == Bare(x) = Bare(y)

\* c and d are one letter in either case.
SameLetter(c, d) ==
  \/ c = d
  \/ \E k \in DOMAIN UpperChars : {c, d} = {UpperChars[k], LowerChars[k]}

\* x and y differ only in letter case.
CaseVariants(x, y) ==
  /\ Len(x) = Len(y)
  /\ \A i \in DOMAIN x : SameLetter(x[i], y[i])

\* A capital sigma stands in final position.
HasFinalCapitalSigma(s) ==
  \E i \in DOMAIN s : s[i] = CapitalSigma /\ FinalSigma(s, i)

\* The arguments proper: Undefined is no text.
NormTexts == NormInputs \ {Undefined}

C21_ToggleChangesOneFlag ==
  [][ToggleAnyFigure =>
       /\ DOMAIN figureGallery' = 1..NumFigures
       /\ \A i, j \in 1..NumFigures :
            i # j => figureGallery'[i].id # figureGallery'[j].id
       /\ \A i \in 1..NumFigures :
            /\ figureGallery'[i].id = InitFigureGallery[i].id
            /\ figureGallery'[i].caption = InitFigureGallery[i].caption
            /\ figureGallery'[i].dataUrl = InitFigureGallery[i].dataUrl
       /\ \E k \in 1..NumFigures :
            /\ figureGallery'[k].selected = ~figureGallery[k].selected
            /\ \A i \in (1..NumFigures) \ {k} :
                 figureGallery'[i].selected = figureGallery[i].selected
       /\ <<council, includeHPMO, projectName, projectLocation, inferredICMP,
            icmpOptions, showIcmpModal, icmpTemp, testResult, lastIndex,
            manaWhenuaMemo, councilMemo>>'
            = <<council, includeHPMO, projectName, projectLocation,
                inferredICMP, icmpOptions, showIcmpModal, icmpTemp,
                testResult, lastIndex, manaWhenuaMemo, councilMemo>>]_vars

\* Figure 2 cleared and figure 5 selected by two clicks, the rest of the
\* session as constructed.
C21_Witness ==
  /\ lastOp = "toggleFigure"
  /\ {i \in 1..NumFigures : figureGallery[i].selected} = {1, 3, 5}
  /\ \A i \in 1..NumFigures :
       [figureGallery[i] EXCEPT !.selected = TRUE]
         = [InitFigureGallery[i] EXCEPT !.selected = TRUE]
  /\ projectName = ProjectNamePool[1]
  /\ council = HamiltonCityCouncil
  /\ inferredICMP = NotSet

\* ------------------------------------------------------------------------
RECURSIVE Rejoin(_, _, _)
\* Lines a to b joined by line breaks.
Rejoin(lines, a, b) ==
  IF a = b THEN lines[a]
  ELSE LET m == (a + b) \div 2
       IN Rejoin(lines, a, m) \o <<NL>> \o Rejoin(lines, m + 1, b)

\* The lines of every narrative are its text cut at the line breaks: none
\* holds a line break, and joined by line breaks they give the text back.
LinesFaithful ==
  /\ \A pn \in ProjectNames, icmp \in Labels :
       /\ Rejoin(ManaWhenuaLinesOf[pn][icmp], 1, Len(ManaWhenuaLinesOf[pn][icmp])) = ManaWhenuaNarrativeOf[pn][icmp]
       /\ \A i \in DOMAIN ManaWhenuaLinesOf[pn][icmp] :
            NL \notin Range(ManaWhenuaLinesOf[pn][icmp][i])
  /\ \A pn \in ProjectNames, cn \in Councils, icmp \in Labels :
       /\ Rejoin(CouncilLinesOf[pn][cn][icmp], 1, Len(CouncilLinesOf[pn][cn][icmp])) = CouncilNarrativeOf[pn][cn][icmp]
       /\ \A i \in DOMAIN CouncilLinesOf[pn][cn][icmp] :
            NL \notin Range(CouncilLinesOf[pn][cn][icmp][i])

\* The gallery positions of the selected figures, in gallery order.
SelectedPositions ==
  SelectSeq([i \in 1..NumFigures |-> i], LAMBDA i : figureGallery[i].selected)

\* The children ch are the title, one paragraph per line, the figures'
\* heading, and caption and image of each figure at the positions sel of
\* the gallery, in that order, with no caption of an unselected figure.
ChildrenAre(ch, title, lines, sel) ==
  LET n == Len(lines)
  IN /\ Len(ch) = 1 + n + 1 + 2 * Len(sel)
     /\ ch[1].style = "TITLE"
     /\ ch[1].text = title
     /\ SubSeq(ch, 2, n + 1) = [i \in 1..n |-> Paragraph("", lines[i])]
     /\ ch[n + 2].style = "HEADING_2"
     /\ \A r \in DOMAIN sel :
          /\ ch[n + 2 * r + 1].style = "HEADING_3"
          /\ ch[n + 2 * r + 1].text = figureGallery[sel[r]].caption
          /\ ch[n + 2 * r + 2].style = "IMAGE"
          /\ ch[n + 2 * r + 2].image = atob(figureGallery[sel[r]].dataUrl).bytes
     /\ \A k \in 1..NumFigures :
          ~figureGallery[k].selected =>
            \A c \in (n + 3)..Len(ch) :
              ch[c].style = "HEADING_3" => ch[c].text # figureGallery[k].caption

\* C22: the document a narrative export builds has, in this order, the
\* title, one paragraph per line of the previewed text in the text's order,
\* the figures' heading, and for each figure selected at the click, in
\* gallery order, its caption immediately followed by its image; no caption
\* of an unselected figure appears; and the file delivered is the document
\* built.
C22_SelectedFiguresEmbedded ==
  [][/\ (/\ Len(jobs') = Len(jobs) + 1
         /\ jobs'[Len(jobs')].pc = "packaging"
         /\ jobs'[Len(jobs')].kind \in {"manaWhenua", "council"})
          => LET job == jobs'[Len(jobs')]
             IN /\ LinesFaithful
                /\ ChildrenAre(
                     DocChildren(job.doc),
                     IF job.kind = "manaWhenua" THEN ManaWhenuaTitle
                     ELSE CouncilTitle,
                     IF job.kind = "manaWhenua"
                     THEN ManaWhenuaLinesOf[manaWhenuaMemo.args[1]][manaWhenuaMemo.args[2]]
                     ELSE CouncilLinesOf[councilMemo.args[1]][councilMemo.args[2]][councilMemo.args[3]],
                     SelectedPositions)
     /\ Len(downloads') = Len(downloads) + 1
          => \E j \in JobsAt(jobs, "packaging") :
               downloads'[Len(downloads')].doc = jobs[j].doc]_vars

\* A mana whenua export clicked with figures 2 and 3 selected and delivered
\* after figure 1 was selected again: the file holds the captions and images
\* of figures 2 and 3 after the previewed lines.
C22_Witness ==
  /\ Len(downloads) >= 1
  /\ downloads[1].doc.title = ManaWhenuaTitle
  /\ Len(downloads[1].doc.figures) = 2
  /\ LET ch == DocChildren(downloads[1].doc)
         n == Len(BodyLines(downloads[1].doc.body))
     IN /\ Len(ch) = n + 6
        /\ n > 10
        /\ ch[n + 3].text = InitFigureGallery[2].caption
        /\ ch[n + 4].style = "IMAGE"
        /\ ch[n + 5].text = InitFigureGallery[3].caption
  /\ figureGallery[1].selected

\* ------------------------------------------------------------------------
\* C23: includeHPMO is false whenever the council is not Hamilton City
\* Council; a step that changes the council leaves includeHPMO true exactly
\* when the new council is Hamilton; and a step that changes includeHPMO
\* without changing the council starts with the council being Hamilton.
C23_ToggleOnlyForHamilton ==
  /\ council # HamiltonCityCouncil => ~includeHPMO
  /\ [][/\ council' # HamiltonCityCouncil => ~includeHPMO'
        /\ council' # council
             => includeHPMO' = (council' = HamiltonCityCouncil)
        /\ (includeHPMO' # includeHPMO /\ council' = council)
             => council = HamiltonCityCouncil]_vars

\* The council switched to Waikato after a classification under Hamilton:
\* the toggle is off.
C23_Witness ==
  /\ council = WaikatoDistrictCouncil
  /\ ~includeHPMO
  /\ lastOp = "setCouncil"
  /\ inferredICMP = "Rotokauri ICMP"

\* ------------------------------------------------------------------------
\* C24: for every location, every canary and every council name (the two of the
\* select and a name that is neither), inferICMP
\* returns the first element of what inferICMPMatches returns, in whatever
\* state the pattern objects are.

C24_EntryPointsAgree ==
  \A l \in Locations \cup Canaries : \A c \in CouncilNames :
    inferICMP(l, c, lastIndex) = Head(inferICMPMatches(l, c, lastIndex))

\* Auto-detect has opened the dialog on several candidates, preselecting the
\* label inferICMP gives the same location.
C24_Witness ==
  /\ lastOp = "classify"
  /\ showIcmpModal
  /\ Len(icmpOptions) > 1
  /\ icmpTemp = inferICMP(projectLocation, council, lastIndex)
  /\ icmpTemp # icmpOptions[Len(icmpOptions)]

\* ------------------------------------------------------------------------
\* C25: the resolved label is always "(not set)", one of the ten area names
\* of the two dictionaries or one of the two fallback labels, and a step
\* that starts with a label other than "(not set)" never ends with
\* "(not set)".

\* The names the two dictionaries declare.
RegionNames ==
  {HCC_ICMPS[i].name : i \in DOMAIN HCC_ICMPS}
    \cup {WDC_ICMPS[i].name : i \in DOMAIN WDC_ICMPS}

C25_LabelDomainAndNoReset ==
  /\ Cardinality(RegionNames) = 10
  /\ [](inferredICMP \in {NotSet} \cup RegionNames
                           \cup {HamiltonFallback, WaikatoFallback})
  /\ [][inferredICMP # NotSet => inferredICMP' # NotSet]_vars

\* A label was resolved and the chooser, reopened by a later classification,
\* has been cancelled: the label is still there.
C25_Witness ==
  /\ lastOp = "cancel"
  /\ inferredICMP \in RegionNames
  /\ icmpTemp # inferredICMP
  /\ icmpTemp # NotSet

\* ------------------------------------------------------------------------
\* C26: in every state the memoized community-voice text is
\* buildStandardManaWhenua's text for the current project name and resolved
\* label, and the memoized technical-voice text is buildStandardCouncil's
\* text for the current project name, council and resolved label; the
\* arguments the memo cells hold, which the export buttons pass on, are the
\* current ones; and a step that changes the council and neither the project
\* name nor the resolved label leaves the community-voice memo as it was.
C26_NarrativesNeverStale ==
  /\ [](/\ manaWhenuaNarrative
             = ManaWhenuaNarrativeOf[projectName][inferredICMP]
        /\ councilNarrative
             = CouncilNarrativeOf[projectName][council][inferredICMP]
        /\ manaWhenuaMemo.args = <<projectName, inferredICMP>>
        /\ councilMemo.args = <<projectName, council, inferredICMP>>)
  /\ [][(/\ council' # council
         /\ projectName' = projectName
         /\ inferredICMP' = inferredICMP)
          => manaWhenuaMemo' = manaWhenuaMemo]_vars

\* The council switched after the name was edited and a label resolved: the
\* technical-voice memo was recomputed for the new council.
C26_Witness ==
  /\ lastOp = "setCouncil"
  /\ council = WaikatoDistrictCouncil
  /\ projectName # ProjectNamePool[1]
  /\ inferredICMP \in RegionNames
  /\ councilMemo.deps = <<projectName, council, inferredICMP>>
  /\ councilNarrative # CouncilNarrativeOf[projectName][HamiltonCityCouncil][inferredICMP]
====
